---- MODULE Spec2Model ----
(***************************************************************************)
(* Portfolio assistant (Robin-Rathore/testAgent): the orchestration loop   *)
(* of src/src/agent.js with its e-mail tool and guard flag, the meeting    *)
(* notification of src/src/calendarTools.js, the session store behind the *)
(* /agent route of src/src/server.js, the tool dispatch of                 *)
(* toolExecutionNode, and the scheduling arithmetic of the calendar tools. *)
(*                                                                         *)
(* Spec, SpecSeq: invocations and the guard flag.  SpecStore: the route    *)
(* over the three stores.  SpecGraph: one invocation's graph and dispatch. *)
(* SpecCalendar: scheduleMeeting and rescheduleMeeting.  SpecLifecycle:    *)
(* the same with cancelMeeting.  SpecAvailability: checkAvailability.      *)
(* SpecInfo: the informational tools.  SpecEnrich: the proposal e-mail of  *)
(* toolExecutionNode.  SpecServer: the start of server.js and the backend  *)
(* and assistant text of each /agent request.  SpecSessions: two request   *)
(* handlers storing and reading turns while client.isReady changes.        *)
(* SpecRoute: the route without direct reads of the store.                 *)
(* SpecCancel: scheduleMeeting and cancelMeeting with their notifications. *)
(* SpecDispatch: toolExecutionNode from await to await.  SpecWorkflow: the *)
(* proposal review workflow.  SpecEnrich also dispatches scheduleMeeting.  *)
(***************************************************************************)
EXTENDS Integers, Sequences, FiniteSets, TLC

(***************************************************************************)
(* Bounds of the model.                                                    *)
(***************************************************************************)
\* Tool Call Requests in one model response
MaxCalls == 1
\* model responses that request tools, per invocation
MaxLoop == 2

\* Tool Call Requests in the model message of the dispatch specification
MaxToolCalls == 2

\* days a meeting may be scheduled on
MaxDay == 2

\* busy intervals the calendar reports to one availability query
MaxBusy == 2
\* last day an availability range may start or end on
MaxScanDay == 3
\* checkAvailability calls made with one query
MaxScans == 2

\* messages that follow the user's message in a conversation
MaxHistory == 3

\* /agent requests served after the start of the process
MaxServed == 2

\* turns two concurrent request handlers store over a run
MaxTurns == 3

\* /agent requests received over a run
MaxRequests == 6
\* largest limit of a read made directly on the store (the route reads with 5)
MaxLimit == 1

\* the two request handlers whose orchestration invocations may be in flight at
\* once (server.js:88-115 awaits runPortfolioAssistant per request, no lock)
Invocations == {1, 2}

(***************************************************************************)
(* Addresses and subjects.  A subject is the sequence of its words;        *)
(* String.prototype.includes(w) is a case-sensitive search for the word.   *)
(***************************************************************************)
secureRecipient == "robinsingh248142@gmail.com"
clientAddress == "client@example.com"
Addresses == {secureRecipient, clientAddress}

Subjects == {<<"Project", "Proposal">>, <<"Revised", "Proposal">>}

Includes(subject, word) == \E k \in DOMAIN subject : subject[k] = word

\* the strings sendEmail returns
SkipNotice == "Skipping redundant email. An email has already been sent in this session."
SecurityNotice == "Security constraint: Emails can only be sent to robinsingh248142@gmail.com. Redirecting email to authorized recipient."
SentNotice == "Email successfully sent to robinsingh248142@gmail.com with enhanced formatting"
FailedNotice == "Failed to send email"

(***************************************************************************)
(* The Tool Call Requests the model capability may issue.                  *)
(***************************************************************************)
EmailCalls == [name : {"sendEmail"}, to : Addresses, subject : Subjects]
\* meetings are asked for with the client's address
MeetingCalls == [name : {"scheduleMeeting"}, clientEmail : {clientAddress}]
InfoCalls == [name : {"getProjectInfo"}]
ToolCalls == EmailCalls \cup MeetingCalls \cup InfoCalls

RECURSIVE SeqsUpTo(_, _)
SeqsUpTo(S, n) ==
  IF n = 0 THEN {<<>>}
  ELSE LET shorter == SeqsUpTo(S, n - 1)
       IN shorter \cup {Append(s, x) : s \in {t \in shorter : Len(t) = n - 1}, x \in S}

ToolCallLists == SeqsUpTo(ToolCalls, MaxCalls)

\* agent.js:1102, 1173, 1269, 1358, 1462: the tools that only build a text
InformationalTools ==
  {"getProjectInfo", "getTeamMemberInfo", "generateProjectProposal", "introduceTeam",
   "getTeamServices"}
\* requests for them, and a proposal e-mail to the operator beside them
InformationalCalls ==
  [name : InformationalTools] \cup
  [name : {"sendEmail"}, to : {secureRecipient}, subject : {<<"Project", "Proposal">>}]
InformationalCallLists == SeqsUpTo(InformationalCalls, MaxCalls)

(***************************************************************************)
(* The session store: the in-memory fallback of server.js, the list-based  *)
(* durable store (unnamed/part_001) and the get/set durable store          *)
(* (src/redismanagement.js).                                               *)
(***************************************************************************)
\* server.js:99, 101: the limit of the route's history read
HistoryLimit == 5

Sessions == {"s1", "s2"}
\* req.body without a sessionId (server.js:92)
NoSession == "none"
\* the store the process runs with: client null or not ready (memory), or
\* ready with one of the two redismanagement modules
Backends == {"memory", "list", "getset"}
Requests == {1}
Limits == (1..MaxLimit) \cup {HistoryLimit}

\* JSON.stringify and JSON.parse
Stringify(value) == [json |-> value]
Parse(text) == text.json

\* client.get of a key never set
Nil == [nil |-> TRUE]

Min(a, b) == IF a < b THEN a ELSE b
Max(a, b) == IF a > b THEN a ELSE b

\* Array.prototype.unshift
Unshift(list, x) == <<x>> \o list
\* Array.prototype.push
Push(list, x) == Append(list, x)
\* Array.prototype.slice(0, limit), limit >= 0
Slice(list, limit) == SubSeq(list, 1, Min(limit, Len(list)))
\* Redis LPUSH
LPush(list, x) == <<x>> \o list
\* Redis LRANGE key start stop: zero-based, inclusive, negative from the end
LRange(list, start, stop) ==
  LET n == Len(list)
      from == IF start < 0 THEN Max(n + start, 0) ELSE start
      to == IF stop < 0 THEN n + stop ELSE Min(stop, n - 1)
  IN IF from > to THEN <<>> ELSE SubSeq(list, from + 1, to + 1)

\* server.js:72-76 and part_001:13-17: the turn the route's store keeps
ChatEntry(userMessage, aiResponse, timestamp) ==
  [user |-> userMessage, ai |-> aiResponse, timestamp |-> timestamp]
\* redismanagement.js:7: the turn the get/set store keeps
BotEntry(userMessage, botResponse) == [user |-> userMessage, bot |-> botResponse]

\* a memory append that keeps the window only
MemoryAppendTrimmed(list, entry) == Slice(Unshift(list, entry), HistoryLimit)

\* server.js:69-76, memoryStoreChat
MemoryAppend(list, entry) == Unshift(list, entry)

\* server.js:80-82, memoryGetChatHistory
MemoryRead(list, limit) == Slice(list, limit)

\* part_001:20-23, lPush of the stringified entry
ListAppend(list, entry) == LPush(list, Stringify(entry))

\* part_001:44-47, lRange and parse
ListRead(list, limit) ==
  LET range == LRange(list, 0, limit - 1)
  IN [k \in 1..Len(range) |-> Parse(range[k])]

\* redismanagement.js:4-5 and 13-14: the parsed value, [] for a missing key
GetSetMessages(value) == IF value = Nil THEN <<>> ELSE Parse(value)

\* redismanagement.js:7-9: the value written back
GetSetAppend(messages, entry) == Stringify(Push(messages, entry))

\* redismanagement.js:12-15, getChatHistory(sessionId): its limit is not a parameter
GetSetRead(value, limit) == GetSetMessages(value)

RECURSIVE Reverse(_)
Reverse(list) == IF list = <<>> THEN <<>> ELSE Append(Reverse(Tail(list)), Head(list))

VARIABLES
  emailSentInCurrentSession, \* agent.js:882, the process-wide guard flag
  pc,        \* per invocation: where its async call chain is suspended
  calls,     \* per invocation: tool_calls of the last model message still to run
  loops,     \* per invocation: model responses that requested tools so far
  resets,    \* per invocation: resetEmailFlag calls made by this invocation
  ownSent,   \* per invocation: a sendEmail of this invocation was delivered
  flagWriter,\* the invocation that last assigned the guard flag (0: none yet)
  ev,        \* what the last step did (its observable outcome)
  backend,       \* the store the process runs with
  memoryStorage, \* server.js:44, session -> turns, most recent first
  redisList,     \* the durable lists chat:<session>, head first
  redisString,   \* the durable values <session> of the get/set store
  requests,      \* /agent requests received so far
  now,           \* Date.now()
  hpc,           \* per request handler: where it is suspended
  hreq,          \* per request handler: its locals
  appended,      \* per session: the turns its appends stored, oldest first
  sev,           \* what the last store or route step did
  node,          \* the graph node one invocation is at (agent.js:1956-1965)
  tool_calls,    \* lastMessage.tool_calls of that invocation
  cursor,        \* position of the for loop of toolExecutionNode (agent.js:1785)
  results,       \* agent.js:1776, the results array of toolExecutionNode
  returned,      \* the messages the last toolExecutionNode returned
  invoked,       \* positions of tool_calls that entered the try block
  threw,         \* positions of tool_calls whose execution threw
  running,       \* the invocations toolExecutionNode awaits: position and tool
  dev,           \* what the last step of that invocation did
  events,        \* the primary calendar: meetingId -> event, or NoMeeting
  durationBefore,\* per meeting: end - start before its first reschedule
  canceled,      \* meeting ids a cancelMeeting call has deleted
  cev,           \* what the last calendar tool call did
  busySlots,     \* calendarTools.js:87, the busy intervals freebusy reports
  query,         \* the arguments the availability calls are made with
  localDateLag,  \* days the server's local date is behind the UTC date at 00:00Z
  availableTimes,\* calendarTools.js:88, the array of the last call
  response,      \* what the last checkAvailability call returned
  previous,      \* what the call before it returned
  scans,         \* checkAvailability calls made so far
  conversation,  \* state.messages before the model message that asks for the e-mail
  emailArgs,     \* toolCall.args of the sendEmail request of that model message
  eev,           \* what the dispatch of that request did
  env,           \* process.env: which backend settings are present
  client,        \* server.js:18, the kind of client object, or "null"
  isReady,       \* client.isReady
  durableUp,     \* the durable backend can be reached
  spc,           \* where the start of the process is (server.js:17-85)
  served,        \* /agent requests served so far
  bev,           \* what the last /agent request did
  wnode,         \* the node of proposalWorkflow that runs next, or "__start__", "__end__"
  wprev,         \* the node that ran last
  wstate         \* the channels of PortfolioStateAnnotation the workflow uses

agentVars == <<emailSentInCurrentSession, pc, calls, loops, resets, ownSent, flagWriter, ev>>
storeVars == <<backend, memoryStorage, redisList, redisString, requests, now, hpc, hreq,
               appended, sev>>
dispatchVars == <<node, tool_calls, cursor, results, returned, invoked, threw, running, dev>>
calendarVars == <<events, durationBefore, canceled, cev>>
availabilityVars == <<busySlots, query, localDateLag, availableTimes, response, previous, scans>>
enrichVars == <<conversation, emailArgs, eev>>
serverVars == <<env, client, isReady, durableUp, spc, served, bev>>
workflowVars == <<wnode, wprev, wstate>>
vars == <<agentVars, storeVars, dispatchVars, calendarVars, availabilityVars, enrichVars,
          serverVars, workflowVars>>

\* what a step of one part of the program leaves alone
exceptAgent == <<storeVars, dispatchVars, calendarVars, availabilityVars, enrichVars, serverVars,
                  workflowVars>>
exceptStore == <<agentVars, dispatchVars, calendarVars, availabilityVars, enrichVars, serverVars,
                  workflowVars>>
exceptDispatch == <<agentVars, storeVars, calendarVars, availabilityVars, enrichVars, serverVars,
                  workflowVars>>
exceptCalendar == <<agentVars, storeVars, dispatchVars, availabilityVars, enrichVars, serverVars,
                  workflowVars>>
exceptAvailability == <<agentVars, storeVars, dispatchVars, calendarVars, enrichVars, serverVars,
                  workflowVars>>
exceptEnrich == <<agentVars, storeVars, dispatchVars, calendarVars, availabilityVars,
                  serverVars,
                  workflowVars>>
exceptServer == <<agentVars, storeVars, dispatchVars, calendarVars, availabilityVars,
                  enrichVars,
                  workflowVars>>

NoEvent ==
  [inv |-> 0, op |-> "none", to |-> "none", revised |-> FALSE,
   flagBefore |-> FALSE, ownBefore |-> FALSE, result |-> "none", transport |-> "none"]

Event(i, op, to, revised, result, transport) ==
  [inv |-> i, op |-> op, to |-> to, revised |-> revised,
   flagBefore |-> emailSentInCurrentSession, ownBefore |-> ownSent[i],
   result |-> result, transport |-> transport]

AgentInit ==
  /\ emailSentInCurrentSession = FALSE
  /\ pc = [i \in Invocations |-> "idle"]
  /\ calls = [i \in Invocations |-> <<>>]
  /\ loops = [i \in Invocations |-> 0]
  /\ resets = [i \in Invocations |-> 0]
  /\ ownSent = [i \in Invocations |-> FALSE]
  /\ flagWriter = 0
  /\ ev = NoEvent

NoLocals == [session |-> NoSession, message |-> 0, responseText |-> "none", messages |-> <<>>]

NoStoreEvent ==
  [op |-> "none", session |-> NoSession, limit |-> 0, result |-> <<>>, failed |-> FALSE,
   before |-> 0, status |-> 0, fault |-> "none"]

\* server.js:18-44: the store after startup, running with backend b
StoreInit(b) ==
  /\ backend = b
  /\ memoryStorage = [s \in Sessions |-> <<>>]
  /\ redisList = [s \in Sessions |-> <<>>]
  /\ redisString = [s \in Sessions |-> Nil]
  /\ requests = 0
  /\ now = 0
  /\ hpc = [r \in Requests |-> "idle"]
  /\ hreq = [r \in Requests |-> NoLocals]
  /\ appended = [s \in Sessions |-> <<>>]
  /\ sev = NoStoreEvent

(***************************************************************************)
(* Tool dispatch: the registry and the tool-result messages of             *)
(* toolExecutionNode (agent.js:1775-1939; the first version, 536-588, has  *)
(* the same resolution, failure boundary and synthetic result).            *)
(***************************************************************************)
\* agent.js:1640-1648 with calendarTools.js:489-495: the tools, by name
tools ==
  <<"sendEmail", "getProjectInfo", "getTeamMemberInfo", "generateProjectProposal",
    "getTeamServices", "introduceTeam", "checkAvailability", "scheduleMeeting",
    "rescheduleMeeting", "cancelMeeting", "getUpcomingMeetings">>

\* agent.js:1649: the keys of toolsByName
RegisteredNames == {tools[k] : k \in DOMAIN tools}

\* agent.js:1649: toolsByName is a plain object, so a property it inherits from
\* Object.prototype is found under its name too (and is no tool)
InheritedNames == {"toString"}

\* toolCall.name undefined or empty, toolCall.id undefined
NoName == "undefined"
NoId == "undefined"

\* the names a model message may request
RequestedNames == {"sendEmail", "doesThingX", "toString", NoName}

\* the k-th Tool Call Request of a model message
ToolCallRequest(name, hasId, k) == [name |-> name, id |-> IF hasId THEN ToString(k) ELSE NoId]

RequestShapes == [name : RequestedNames, hasId : BOOLEAN]

\* the tool_calls arrays of a model message, [] included
ToolCallArrays ==
  {[k \in 1..Len(shape) |-> ToolCallRequest(shape[k].name, shape[k].hasId, k)] :
     shape \in SeqsUpTo(RequestShapes, MaxToolCalls)}

\* new ToolMessage({content, tool_call_id})
ToolMessage(content, id) == [content |-> content, tool_call_id |-> id]

\* agent.js:1842, 1860, 1884, 1896: what the tool returned
Observation(name) == <<"observation">>

\* agent.js:1903: `Error executing tool ${toolCall.name}: ${error.message}`
ExecutionError(name) == <<"Error executing tool", name, "error.message">>

\* an invalid-tool text that names every registered tool
InvalidToolErrorWithCatalog(name) ==
  <<"Error: Invalid tool request for", IF name = NoName THEN "unknown tool" ELSE name>>
    \o tools

\* agent.js:1914-1916: `Error: Invalid tool request for '${toolCall?.name || "unknown tool"}'`
InvalidToolError(name) ==
  <<"Error: Invalid tool request for", IF name = NoName THEN "unknown tool" ELSE name>>

\* agent.js:1929-1933
SyntheticError ==
  ToolMessage(<<"Error processing tool calls. Please try a different request.">>, "error")

\* agent.js:1786: toolCall && toolCall.name && toolsByName[toolCall.name]
Resolves(toolCall) ==
  toolCall.name # NoName /\ toolCall.name \in RegisteredNames \cup InheritedNames

\* an execution whose exception leaves no result
ExecutionResultUncaught(toolCall, thrown) ==
  IF thrown THEN <<>> ELSE <<ToolMessage(Observation(toolCall.name), toolCall.id)>>

\* agent.js:1788-1907: the result pushed for a resolved request, thrown or not
ExecutionResult(toolCall, thrown) ==
  IF thrown
  THEN <<ToolMessage(ExecutionError(toolCall.name), toolCall.id)>>
  ELSE <<ToolMessage(Observation(toolCall.name), toolCall.id)>>

\* an invalid-tool branch that answers nothing
InvalidResultNone(toolCall) == <<>>

\* agent.js:1909-1921: the result pushed for an unresolved request, if any
InvalidResult(toolCall) ==
  IF toolCall.id # NoId
  THEN <<ToolMessage(InvalidToolError(toolCall.name), toolCall.id)>>
  ELSE <<>>

\* a node that returns its results array as it is
NodeMessagesAsIs(res) == res

\* agent.js:1925-1938: the messages toolExecutionNode returns; tool_calls is an
\* array, which is truthy also when empty
NodeMessages(res) == IF Len(res) = 0 THEN <<SyntheticError>> ELSE res

NoDispatchEvent == [op |-> "none", at |-> 0, thrown |-> FALSE, pushed |-> <<>>]

DispatchInit ==
  /\ node = "__start__"
  /\ tool_calls = <<>>
  /\ cursor = 0
  /\ results = <<>>
  /\ returned = <<>>
  /\ invoked = {}
  /\ threw = {}
  /\ running = {}
  /\ dev = NoDispatchEvent

(***************************************************************************)
(* The calendar tools (calendarTools.js).  Instants are milliseconds since *)
(* midnight of the first day of the model; a date string is its day number *)
(* and a time string its hours and minutes.                                *)
(***************************************************************************)
\* calendarTools.js:185, 316, 320: milliseconds per minute
MsPerMinute == 60000
MinutesPerHour == 60
HoursPerDay == 24

MeetingIds == {"m1", "m2"}
Dates == 1..MaxDay
StartTimes == {<<9, 0>>, <<10, 30>>}
TimeZones == {"America/Los_Angeles", "UTC"}
MeetingTypes ==
  {"initial consultation", "proposal review", "Proposal Review", "status update",
   "technical discussion", "kickoff"}

\* the lengths, in milliseconds, an edit made outside the assistant gives an
\* event: 15 minutes, and 30 minutes 30 seconds
EditedLengths == {15 * MsPerMinute, 30 * MsPerMinute + MsPerMinute \div 2}

\* String.prototype.toLowerCase on the meeting types
ToLowerCase(text) == IF text = "Proposal Review" THEN "proposal review" ELSE text

\* Date.prototype.toISOString and new Date(isoString).getTime()
ToISOString(ms) == [iso |-> ms]
GetTime(isoString) == isoString.iso

\* Date.UTC(year, month - 1, day, hours, minutes, 0)
DateUTC(day, hours, minutes) ==
  (((day - 1) * HoursPerDay + hours) * MinutesPerHour + minutes) * MsPerMinute

\* calendarTools.js:50-56; the time zone is not used
formatDateTimeForGoogle(dateStr, timeStr, timeZone) ==
  ToISOString(DateUTC(dateStr, timeStr[1], timeStr[2]))

\* a duration table whose default is the hour
getMeetingDurationMinutesHour(meetingType) ==
  CASE ToLowerCase(meetingType) = "proposal review" -> 45
    [] ToLowerCase(meetingType) = "status update" -> 30
    [] OTHER -> 60

\* calendarTools.js:59-72
getMeetingDurationMinutes(meetingType) ==
  CASE ToLowerCase(meetingType) = "initial consultation" -> 60
    [] ToLowerCase(meetingType) = "proposal review" -> 45
    [] ToLowerCase(meetingType) = "status update" -> 30
    [] ToLowerCase(meetingType) = "technical discussion" -> 60
    [] OTHER -> 30

\* Math.round of a non-negative quotient ms / 60000
MathRoundMinutes(ms) == (ms + MsPerMinute \div 2) \div MsPerMinute

\* calendarTools.js:185 and 320: new Date(new Date(start).getTime() + minutes * 60000).toISOString()
EndDateTime(startDateTime, minutes) == ToISOString(GetTime(startDateTime) + minutes * MsPerMinute)

\* calendarTools.js:314-316: the duration read off the existing event
ExistingDurationMinutes(event) ==
  MathRoundMinutes(GetTime(event.end.dateTime) - GetTime(event.start.dateTime))

\* calendarTools.js:206-213 and 328-335: the start and end of an event resource
EventTimes(startDateTime, endDateTime, timeZone) ==
  [start |-> [dateTime |-> startDateTime, timeZone |-> timeZone],
   end |-> [dateTime |-> endDateTime, timeZone |-> timeZone]]

\* an event id the calendar does not hold
NoMeeting == [none |-> TRUE]
\* no reschedule yet since the event was created or edited
NotRescheduled == -1

\* end minus start of a stored event, in milliseconds
EventLength(event) == GetTime(event.end.dateTime) - GetTime(event.start.dateTime)

NoCalendarEvent ==
  [op |-> "none", meetingId |-> "none", meetingType |-> "none", success |-> FALSE,
   flag |-> "none", api |-> <<>>, notice |-> "none"]

CalendarInit ==
  /\ events = [id \in MeetingIds |-> NoMeeting]
  /\ durationBefore = [id \in MeetingIds |-> NotRescheduled]
  /\ canceled = {}
  /\ cev = NoCalendarEvent

(***************************************************************************)
(* checkAvailability (calendarTools.js:75-165).  Instants are minutes      *)
(* since 00:00 UTC of day 1; day 1 is a Thursday.                          *)
(***************************************************************************)
\* calendarTools.js:97-98
businessStartHour == 9
businessEndHour == 17
\* calendarTools.js:144, availableTimes.slice(0, 5)
SlotLimit == 5
\* Date.prototype.getDay of a Thursday
Thursday == 4
DaysPerWeek == 7

ScanDays == 1..MaxScanDay
Queries == [startDate : ScanDays, endDate : ScanDays, timeZone : TimeZones]

\* the instant of hours:minutes UTC on a day
InstantUTC(day, hours, minutes) ==
  ((day - 1) * HoursPerDay + hours) * MinutesPerHour + minutes

\* the instants on day 1 a reported busy interval starts or ends at
BusyInstants ==
  {InstantUTC(1, 9, 0), InstantUTC(1, 9, 30), InstantUTC(1, 9, 45),
   InstantUTC(1, 10, 0), InstantUTC(1, 17, 0), InstantUTC(1, 18, 0)}
\* response.data.calendars.primary.busy: intervals with start before end
BusyIntervals == {b \in [start : BusyInstants, end : BusyInstants] : b.start < b.end}
RECURSIVE ReportsUpTo(_)
ReportsUpTo(n) ==
  IF n = 0 THEN {{}}
  ELSE LET smaller == ReportsUpTo(n - 1)
       IN  smaller \cup {r \cup {b} : r \in smaller, b \in BusyIntervals}
BusyReports == ReportsUpTo(MaxBusy)

\* calendarTools.js:115-116: the offset written into the slot's date string
ZoneOffset(timeZone) ==
  IF timeZone = "America/Los_Angeles" THEN 0 - 8 * MinutesPerHour ELSE 0

\* new Date(`${dateString}T${time}:00.000${offset}`), calendarTools.js:115-116
SlotInstant(date, hour, timeZone) == InstantUTC(date, hour, 0) - ZoneOffset(timeZone)

\* Date.prototype.getDay of a local date
getDay(date) == (date - 1 + Thursday) % DaysPerWeek

\* a busy test of the two edge conditions only
isSlotBusyEdges(slotStart, slotEnd, reported) ==
  \E busy \in reported :
    \/ slotStart >= busy.start /\ slotStart < busy.end
    \/ slotEnd > busy.start /\ slotEnd <= busy.end

\* calendarTools.js:119-127
isSlotBusy(slotStart, slotEnd, reported) ==
  \E busy \in reported :
    \/ slotStart >= busy.start /\ slotStart < busy.end
    \/ slotEnd > busy.start /\ slotEnd <= busy.end
    \/ slotStart <= busy.start /\ slotEnd >= busy.end

\* calendarTools.js:130-134
Slot(date, hour) ==
  [date |-> date, startTime |-> <<hour, 0>>, endTime |-> <<hour + 1, 0>>]

\* calendarTools.js:111-136, the loop over the hours of one day
RECURSIVE ScanHours(_, _, _, _, _)
ScanHours(acc, date, hour, timeZone, reported) ==
  IF hour >= businessEndHour THEN acc
  ELSE ScanHours(IF isSlotBusy(SlotInstant(date, hour, timeZone),
                               SlotInstant(date, hour + 1, timeZone), reported)
                 THEN acc
                 ELSE Push(acc, Slot(date, hour)),
                 date, hour + 1, timeZone, reported)

\* calendarTools.js:101-140, the loop over the days: currentDate starts at
\* 00:00Z of startDate and advances a day at a time up to 00:00Z of endDate;
\* its local date (getDate, getDay) is lag days behind
RECURSIVE ScanDates(_, _, _, _, _, _)
ScanDates(acc, currentDate, endDate, lag, timeZone, reported) ==
  IF currentDate > endDate THEN acc
  ELSE ScanDates(IF getDay(currentDate - lag) # 0 /\ getDay(currentDate - lag) # 6
                 THEN ScanHours(acc, currentDate - lag, businessStartHour, timeZone, reported)
                 ELSE acc,
                 currentDate + 1, endDate, lag, timeZone, reported)

\* availableSlots without the cut
AvailableSlotsAll(list) == list

\* calendarTools.js:144
AvailableSlots(list) == Slice(list, SlotLimit)

\* calendarTools.js:142-146
AvailabilityResponse(list, timeZone) ==
  [available |-> Len(list) > 0, availableSlots |-> AvailableSlots(list), timeZone |-> timeZone]

NoResponse == [none |-> TRUE]

AvailabilityInit(reported, q, lag) ==
  /\ busySlots = reported
  /\ query = q
  /\ localDateLag = lag
  /\ availableTimes = <<>>
  /\ response = NoResponse
  /\ previous = NoResponse
  /\ scans = 0

\* no availability query is made
AvailabilityIdle ==
  AvailabilityInit({}, [startDate |-> 1, endDate |-> 1, timeZone |-> "UTC"], 0)

(***************************************************************************)
(* The proposal e-mail: handleClientRequirements (agent.js:1709-1771) and  *)
(* the sendEmail branch of toolExecutionNode (agent.js:1789-1866).  A text *)
(* is the tuple of the substrings of interest it includes.                 *)
(***************************************************************************)
NoRole == "undefined"
ProposalHeading == "# Project Proposal for"

\* test.js:31: "Create a proposal for ABC Company for a new e-commerce website ..."
RequirementsText == <<"proposal", "e-commerce", "web", "website">>
\* test.js:16: "Hi"
GreetingText == <<"Hi">>
UserTexts == {RequirementsText, GreetingText}

\* agent.js:1971-1976: the input message; the graph state holds it with its
\* role or, as a message instance, without one
UserMessage(content, keepsRole) ==
  [from |-> "user", role |-> IF keepsRole THEN "user" ELSE NoRole,
   content |-> content, tool_call_id |-> NoId]
\* agent.js:1694-1706: a model message
AiMessage ==
  [from |-> "model", role |-> NoRole, content |-> <<"ok">>, tool_call_id |-> NoId]
\* agent.js:1269-1355 through 1894-1899: a tool result holding a proposal; k
\* tells one proposal from another
ProposalResult(k) ==
  [from |-> "tool", role |-> NoRole, content |-> <<ProposalHeading, ToString(k)>>,
   tool_call_id |-> ToString(k)]
\* agent.js:1894-1899: the result of an informational tool
InfoResult(k) ==
  [from |-> "tool", role |-> NoRole, content |-> <<"project", "info">>,
   tool_call_id |-> ToString(k)]

MessageKinds == {"model", "proposal", "info"}
Histories == SeqsUpTo(MessageKinds, MaxHistory)

\* the conversation of one invocation: the user's message, then what the loop
\* appended
Conversation(content, keepsRole, history) ==
  <<UserMessage(content, keepsRole)>> \o
  [k \in DOMAIN history |->
     CASE history[k] = "model" -> AiMessage
       [] history[k] = "proposal" -> ProposalResult(k)
       [] OTHER -> InfoResult(k)]

\* the sendEmail requests the model issues for a proposal
ProposalEmailArgs ==
  [to : {secureRecipient},
   subject : {<<"Project", "Proposal">>, <<"project", "proposal">>},
   body : {<<"details">>, <<"proposal", "details">>}]

NoProposal == <<>>
NoClientInfo == [found |-> FALSE, requirements |-> <<>>, proposal |-> NoProposal,
                 needsProposalGeneration |-> FALSE, projectType |-> "undefined"]

\* agent.js:1729-1731 and 1740: the project type named in the requirements
RequirementsProjectType(content) ==
  IF Includes(content, "website") THEN "website" ELSE "Project"

\* agent.js:1759 and 1764: the "Type: ..." line of a proposal
ProposalProjectType(content) ==
  IF Includes(content, "Type: Website") THEN "Website" ELSE "Project"

\* agent.js:1715-1721
IsRequirements(message) ==
  /\ message.role = "user"
  /\ \/ Includes(message.content, "e-commerce")
     \/ Includes(message.content, "web")
     \/ Includes(message.content, "proposal")
     \/ Includes(message.content, "project")

\* agent.js:1750-1754
BearsProposal(message) ==
  /\ message.tool_call_id # NoId
  /\ message.content # <<>>
  /\ Includes(message.content, ProposalHeading)

\* the last position of a non-empty set of positions
LastOf(positions) == CHOOSE i \in positions : \A j \in positions : j <= i

\* agent.js:1709-1771; the names it extracts from the text are left out
handleClientRequirements(msgs) ==
  LET requirementsAt == {i \in DOMAIN msgs : IsRequirements(msgs[i])}
      proposalAt == {i \in DOMAIN msgs : BearsProposal(msgs[i])}
  IN  IF requirementsAt # {}
      THEN [found |-> TRUE, requirements |-> msgs[LastOf(requirementsAt)].content,
            proposal |-> NoProposal, needsProposalGeneration |-> TRUE,
            projectType |-> RequirementsProjectType(msgs[LastOf(requirementsAt)].content)]
      ELSE IF proposalAt # {}
      THEN [found |-> TRUE, requirements |-> <<>>,
            proposal |-> msgs[LastOf(proposalAt)].content,
            needsProposalGeneration |-> FALSE,
            projectType |-> ProposalProjectType(msgs[LastOf(proposalAt)].content)]
      ELSE NoClientInfo

\* agent.js:1269-1355: the text generateProjectProposal returns
generateProjectProposal(requirements) == <<ProposalHeading, "synthesized">>

\* agent.js:884-1004
generateEmailHTML(proposal) == [html |-> proposal]

\* agent.js:1791-1796
MentionsProposal(toolArgs) ==
  Includes(toolArgs.subject, "proposal") \/ Includes(toolArgs.body, "proposal")

\* agent.js:1031-1035, the body handed to the transport
EmailBody(body, isProposal, proposal) ==
  IF isProposal /\ proposal # NoProposal THEN generateEmailHTML(proposal) ELSE [html |-> body]

\* toolCall.args is missing
NoArgs == [none |-> TRUE]

NoEnrichEvent ==
  [op |-> "none", entered |-> FALSE, generated |-> 0, attached |-> NoProposal,
   transports |-> 0, html |-> [html |-> <<>>],
   args |-> NoArgs, found |-> FALSE, invoked |-> <<>>]

EnrichInit(msgs, toolArgs) ==
  /\ conversation = msgs
  /\ emailArgs = toolArgs
  /\ eev = NoEnrichEvent

\* no proposal e-mail is asked for
EnrichIdle ==
  EnrichInit(<<>>, [to |-> secureRecipient, subject |-> <<>>, body |-> <<>>])

(***************************************************************************)
(* The start of the server (server.js:17-85) and the /agent route's choice *)
(* of backend and of the assistant text it stores (server.js:96-125).      *)
(***************************************************************************)
\* process.env: UPSTASH_REDIS_REST_URL and UPSTASH_REDIS_TOKEN both set; REDIS_URL set
Environments == [upstash : BOOLEAN, redisUrl : BOOLEAN]

\* server.js:21-37: the client the module creates
CreatedClient(e) ==
  IF e.upstash THEN "UpstashRedisClient"
  ELSE IF ~e.redisUrl THEN "createClient()"
  ELSE "createClient({ url })"

\* upstashRedis.js:5-47: the class has request, lPush, lRange and expire only
HasOn(c) == c # "UpstashRedisClient"

\* upstashRedis.js:9: the REST client is ready from construction; a redis
\* client is ready once connected
ReadyAtCreation(c) == c = "UpstashRedisClient"

\* server.js:98 and 121: the store the route uses
ServingBackend(c, ready) ==
  IF c # "null" /\ ready
  THEN (IF c = "UpstashRedisClient" THEN "rest" ELSE "direct")
  ELSE "memory"

\* server.js:118: the text when the extraction finds nothing
NoResponseReceived == <<"No response received">>

\* server.js:111-112: the input handed to runPortfolioAssistant
InputWithHistory(message) == <<"# New User Message:">> \o message

\* the texts of the final model message
FinalTexts == {<<"answer">>, <<"Hello">>}
FinalMessage(text) ==
  [from |-> "model", role |-> NoRole, content |-> text, tool_call_id |-> NoId]

\* agent.js:1979: result.messages, the input first and the final model
\* message last
ResultMessages(message, history, text) ==
  Conversation(InputWithHistory(message), TRUE, history) \o <<FinalMessage(text)>>

\* server.js:118, aiResponse?.[0]?.kwargs?.content || "No response received";
\* hasKwargs: the elements are in their serialized form, with a kwargs property
ResponseText(aiResponse, hasKwargs) ==
  IF aiResponse = <<>> \/ ~hasKwargs \/ aiResponse[1].content = <<>>
  THEN NoResponseReceived
  ELSE aiResponse[1].content

NoServerEvent ==
  [op |-> "none", backend |-> "none", reachable |-> FALSE, settled |-> FALSE,
   user |-> <<>>, ai |-> <<>>, final |-> <<>>]

ServerInit(e, up) ==
  /\ env = e
  /\ client = "null"
  /\ isReady = FALSE
  /\ durableUp = up
  /\ spc = "load"
  /\ served = 0
  /\ bev = NoServerEvent

\* the server is not started
ServerIdle == ServerInit([upstash |-> FALSE, redisUrl |-> FALSE], FALSE)

\* proposalWorkflow is not invoked
NoWorkflowState == [request |-> "none", response |-> "none", feedback |-> <<>>]

WorkflowIdle ==
  /\ wnode = "__start__"
  /\ wprev = "none"
  /\ wstate = NoWorkflowState

Init ==
  /\ AgentInit /\ StoreInit("memory") /\ DispatchInit /\ CalendarInit
  /\ AvailabilityIdle /\ EnrichIdle /\ ServerIdle /\ WorkflowIdle

(***************************************************************************)
(* sendEmail (agent.js:1007-1096), up to its first suspension point.       *)
(***************************************************************************)
\* a duplicate check that forgets the guard flag
ShouldSkipAnyRevised(flag, subject) == Includes(subject, "Revised")

\* agent.js:1022, the duplicate check
ShouldSkip(flag, subject) == flag /\ Includes(subject, "Revised")

\* a recipient check that lets every address through
RecipientAllowedAny(to) == TRUE

\* agent.js:1027, the recipient check
RecipientAllowed(to) == to = secureRecipient

\* agent.js:1021-1053: which of its three exits the call takes
SendEmailExit(flag, to, subject) ==
  IF ShouldSkip(flag, subject) THEN "skip"
  ELSE IF ~RecipientAllowed(to) THEN "decline"
  ELSE "transport"

\* agent.js:1048, the recipient handed to transporter.sendMail
SendEmailRecipient(to) == secureRecipient

\* the flag set whether or not the transport delivered
FlagAfterSendAlways(flag, delivered) == TRUE

\* agent.js:1055-1060: the flag after the awaited transport call
FlagAfterSend(flag, delivered) == IF delivered THEN TRUE ELSE flag

\* a reset that leaves the flag as it is
ResetEmailFlagKeeps(i) ==
  /\ UNCHANGED <<emailSentInCurrentSession, flagWriter>>
  /\ resets' = [resets EXCEPT ![i] = @ + 1]

\* agent.js:1098-1100
ResetEmailFlag(i) ==
  /\ emailSentInCurrentSession' = FALSE
  /\ flagWriter' = i
  /\ resets' = [resets EXCEPT ![i] = @ + 1]

\* calendarTools.js:33, the recipient of the client notification
MeetingEmailRecipient(clientEmail) == clientEmail

(***************************************************************************)
(* The orchestration loop (agent.js:1956-1980).                            *)
(***************************************************************************)
\* a routing that ends the loop whatever the model asked for
determineNextStepEnds(toolCalls) == "__end__"

\* agent.js:1941-1953
determineNextStep(toolCalls) == IF Len(toolCalls) > 0 THEN "ExecuteTool" ELSE "__end__"

\* the position after the call at the head of calls[i] has produced its result:
\* the for loop of toolExecutionNode goes on, or the node returns and the edge
\* toolExecutionNode -> llmNode is taken (agent.js:1785, 1938, 1964)
AfterCall(i) ==
  /\ calls' = [calls EXCEPT ![i] = Tail(@)]
  /\ pc' = [pc EXCEPT ![i] = IF Tail(calls[i]) = <<>> THEN "llmNode" ELSE "toolExecutionNode"]

\* an invocation that goes straight to the graph
RunPortfolioAssistantNoReset(i) ==
  /\ pc[i] = "idle"
  /\ pc' = [pc EXCEPT ![i] = "llmNode"]
  /\ ownSent' = [ownSent EXCEPT ![i] = FALSE]
  /\ ev' = Event(i, "runPortfolioAssistant", "none", FALSE, "none", "none")
  /\ UNCHANGED <<emailSentInCurrentSession, flagWriter, resets, calls, loops>>
  /\ UNCHANGED exceptAgent

\* agent.js:1968-1970: the flag is reset, then the graph is invoked (awaited)
RunPortfolioAssistant(i) ==
  /\ pc[i] = "idle"
  /\ ResetEmailFlag(i)
  /\ pc' = [pc EXCEPT ![i] = "llmNode"]
  /\ ownSent' = [ownSent EXCEPT ![i] = FALSE]
  /\ ev' = Event(i, "runPortfolioAssistant", "none", FALSE, "none", "none")
  /\ UNCHANGED <<calls, loops>>
  /\ UNCHANGED exceptAgent

\* agent.js:1694-1706 and 1960-1963: the model answers; determineNextStep routes
LlmNode(i) ==
  /\ pc[i] = "llmNode"
  /\ \E tc \in ToolCallLists :
       /\ determineNextStep(tc) = "ExecuteTool" => loops[i] < MaxLoop
       /\ calls' = [calls EXCEPT ![i] = tc]
       /\ IF determineNextStep(tc) = "ExecuteTool"
          THEN /\ pc' = [pc EXCEPT ![i] = "toolExecutionNode"]
               /\ loops' = [loops EXCEPT ![i] = @ + 1]
          ELSE /\ pc' = [pc EXCEPT ![i] = "__end__"]
               /\ UNCHANGED loops
  /\ ev' = Event(i, "llmNode", "none", FALSE, "none", "none")
  /\ UNCHANGED <<emailSentInCurrentSession, resets, ownSent, flagWriter>>
  /\ UNCHANGED exceptAgent

\* agent.js:1893 with 1021-1053: a sendEmail request runs to its return or to
\* the await of transporter.sendMail
SendEmail(i) ==
  /\ pc[i] = "toolExecutionNode"
  /\ calls[i] # <<>>
  /\ Head(calls[i]).name = "sendEmail"
  /\ LET c == Head(calls[i])
         exit == SendEmailExit(emailSentInCurrentSession, c.to, c.subject)
         revised == Includes(c.subject, "Revised")
     IN CASE exit = "skip" ->
               /\ ev' = Event(i, "sendEmail", c.to, revised, SkipNotice, "none")
               /\ AfterCall(i)
          [] exit = "decline" ->
               /\ ev' = Event(i, "sendEmail", c.to, revised, SecurityNotice, "none")
               /\ AfterCall(i)
          [] exit = "transport" ->
               /\ ev' = Event(i, "sendEmail", c.to, revised, "pending", SendEmailRecipient(c.to))
               /\ pc' = [pc EXCEPT ![i] = "sendMail"]
               /\ UNCHANGED calls
  /\ UNCHANGED <<emailSentInCurrentSession, loops, resets, ownSent, flagWriter>>
  /\ UNCHANGED exceptAgent

\* agent.js:1046-1061: transporter.sendMail settles; the flag is set on success
SendMailSettled(i) ==
  /\ pc[i] = "sendMail"
  /\ \E delivered \in BOOLEAN :
       LET c == Head(calls[i])
       IN /\ emailSentInCurrentSession' = FlagAfterSend(emailSentInCurrentSession, delivered)
          /\ flagWriter' = IF delivered THEN i ELSE flagWriter
          /\ ownSent' = [ownSent EXCEPT ![i] = @ \/ delivered]
          /\ ev' = Event(i, "sendEmail.settled", c.to, Includes(c.subject, "Revised"),
                         IF delivered THEN SentNotice ELSE FailedNotice, "none")
  /\ AfterCall(i)
  /\ UNCHANGED <<loops, resets>>
  /\ UNCHANGED exceptAgent

\* calendarTools.js:180-275: the event is created and, when that succeeded, the
\* client is notified through the mail transport (sendMeetingEmail, 30-44)
ScheduleMeeting(i) ==
  /\ pc[i] = "toolExecutionNode"
  /\ calls[i] # <<>>
  /\ Head(calls[i]).name = "scheduleMeeting"
  /\ \E created \in BOOLEAN :
       LET c == Head(calls[i])
       IN IF created
          THEN /\ ev' = Event(i, "scheduleMeeting", c.clientEmail, FALSE, "pending",
                              MeetingEmailRecipient(c.clientEmail))
               /\ pc' = [pc EXCEPT ![i] = "meetingMail"]
               /\ UNCHANGED calls
          ELSE /\ ev' = Event(i, "scheduleMeeting", c.clientEmail, FALSE, "success: false", "none")
               /\ AfterCall(i)
  /\ UNCHANGED <<emailSentInCurrentSession, loops, resets, ownSent, flagWriter>>
  /\ UNCHANGED exceptAgent

\* calendarTools.js:38-43 and 257-269: the notification settles either way
MeetingMailSettled(i) ==
  /\ pc[i] = "meetingMail"
  /\ ev' = Event(i, "scheduleMeeting.settled", Head(calls[i]).clientEmail, FALSE,
                 "success: true", "none")
  /\ AfterCall(i)
  /\ UNCHANGED <<emailSentInCurrentSession, loops, resets, ownSent, flagWriter>>
  /\ UNCHANGED exceptAgent

\* an informational tool that mails what it built and sets the flag
InfoToolMails(i) ==
  /\ pc[i] = "toolExecutionNode"
  /\ calls[i] # <<>>
  /\ Head(calls[i]).name \in InformationalTools
  /\ ev' = Event(i, Head(calls[i]).name, secureRecipient, FALSE, "info", "sendMail")
  /\ AfterCall(i)
  /\ emailSentInCurrentSession' = TRUE
  /\ flagWriter' = i
  /\ UNCHANGED <<loops, resets, ownSent>>
  /\ UNCHANGED exceptAgent

\* agent.js:1102-1171, 1173-1266, 1269-1355, 1358-1459, 1462-1637: an
\* informational tool returns a text built from its arguments and the tables
\* of the module; no transport, no calendar call, no flag
InfoTool(i) ==
  /\ pc[i] = "toolExecutionNode"
  /\ calls[i] # <<>>
  /\ Head(calls[i]).name \in InformationalTools
  /\ ev' = Event(i, Head(calls[i]).name, "none", FALSE, "info", "none")
  /\ AfterCall(i)
  /\ UNCHANGED <<emailSentInCurrentSession, loops, resets, ownSent, flagWriter>>
  /\ UNCHANGED exceptAgent

\* agent.js:1694-1706: the model answers with informational requests or the
\* proposal e-mail
LlmNodeInfo(i) ==
  /\ pc[i] = "llmNode"
  /\ \E tc \in InformationalCallLists :
       /\ determineNextStep(tc) = "ExecuteTool" => loops[i] < MaxLoop
       /\ calls' = [calls EXCEPT ![i] = tc]
       /\ IF determineNextStep(tc) = "ExecuteTool"
          THEN /\ pc' = [pc EXCEPT ![i] = "toolExecutionNode"]
               /\ loops' = [loops EXCEPT ![i] = @ + 1]
          ELSE /\ pc' = [pc EXCEPT ![i] = "__end__"]
               /\ UNCHANGED loops
  /\ ev' = Event(i, "llmNode", "none", FALSE, "none", "none")
  /\ UNCHANGED <<emailSentInCurrentSession, resets, ownSent, flagWriter>>
  /\ UNCHANGED exceptAgent

\* agent.js:1979: the invocation returns the messages to its caller
ReturnMessages(i) ==
  /\ pc[i] = "__end__"
  /\ pc' = [pc EXCEPT ![i] = "idle"]
  /\ loops' = [loops EXCEPT ![i] = 0]
  /\ resets' = [resets EXCEPT ![i] = 0]
  /\ ev' = Event(i, "return", "none", FALSE, "none", "none")
  /\ UNCHANGED <<emailSentInCurrentSession, calls, ownSent, flagWriter>>
  /\ UNCHANGED exceptAgent

LoopStep(i) ==
  \/ LlmNode(i)
  \/ SendEmail(i)
  \/ SendMailSettled(i)
  \/ ScheduleMeeting(i)
  \/ MeetingMailSettled(i)
  \/ InfoTool(i)
  \/ ReturnMessages(i)

\* requests are handled independently: invocations interleave at their awaits
Next == \E i \in Invocations : RunPortfolioAssistant(i) \/ LoopStep(i)

Spec == Init /\ [][Next]_vars

\* one request at a time: an invocation starts only when none is in flight
RunAlone(i) ==
  /\ \A j \in Invocations : pc[j] = "idle"
  /\ RunPortfolioAssistant(i)

NextSeq == \E i \in Invocations : RunAlone(i) \/ LoopStep(i)

\* invocations that ask for informational tools, beside proposal e-mails
InfoStep(i) ==
  \/ RunPortfolioAssistant(i)
  \/ LlmNodeInfo(i)
  \/ InfoTool(i)
  \/ SendEmail(i)
  \/ SendMailSettled(i)
  \/ ReturnMessages(i)

NextInfo == \E i \in Invocations : InfoStep(i)

SpecSeq == Init /\ [][NextSeq]_vars

SpecInfo == Init /\ [][NextInfo]_vars

(***************************************************************************)
(* The /agent route (server.js:88-133) over the session store.             *)
(***************************************************************************)
StoreEvent(op, session, limit, result, failed, before, status, fault) ==
  [op |-> op, session |-> session, limit |-> limit, result |-> result, failed |-> failed,
   before |-> before, status |-> status, fault |-> fault]

\* the turns the running backend holds for a session, in stored order
Stored(s) ==
  CASE backend = "memory" -> memoryStorage[s]
    [] backend = "list" -> [k \in 1..Len(redisList[s]) |-> Parse(redisList[s][k])]
    [] backend = "getset" -> GetSetMessages(redisString[s])

StoredCount(s) == Len(Stored(s))

\* res.json / res.status(...).json: the request is answered and its handler ends
Answer(r) ==
  /\ hpc' = [hpc EXCEPT ![r] = "idle"]
  /\ hreq' = [hreq EXCEPT ![r] = NoLocals]

\* server.js:88-94: a request arrives; 400 without a sessionId
AgentReceive(r) ==
  /\ hpc[r] = "idle"
  /\ requests < MaxRequests
  /\ requests' = requests + 1
  /\ \E sid \in Sessions \cup {NoSession} :
       IF sid = NoSession
       THEN /\ sev' = StoreEvent("receive", sid, 0, <<>>, FALSE, 0, 400, "sessionId")
            /\ UNCHANGED <<hpc, hreq>>
       ELSE /\ sev' = StoreEvent("receive", sid, 0, <<>>, FALSE, 0, 0, "none")
            /\ hpc' = [hpc EXCEPT ![r] = "history"]
            /\ hreq' = [hreq EXCEPT ![r] = [NoLocals EXCEPT !.session = sid,
                                                           !.message = requests + 1]]
  /\ UNCHANGED <<backend, memoryStorage, redisList, redisString, now, appended>>
  /\ UNCHANGED exceptStore

\* server.js:96-104: the history read; part_001:36-52 catches a failing lRange,
\* redismanagement.js:12-15 lets a failing get reach the route's catch (129-132)
AgentHistory(r) ==
  /\ hpc[r] = "history"
  /\ LET s == hreq[r].session
     IN CASE backend = "memory" ->
               /\ sev' = StoreEvent("read", s, HistoryLimit,
                                    MemoryRead(memoryStorage[s], HistoryLimit),
                                    FALSE, 0, 0, "none")
               /\ hpc' = [hpc EXCEPT ![r] = "assistant"]
               /\ UNCHANGED hreq
          [] backend = "list" ->
               \E fails \in BOOLEAN :
                 /\ sev' = StoreEvent("read", s, HistoryLimit,
                                      IF fails THEN <<>>
                                      ELSE ListRead(redisList[s], HistoryLimit),
                                      fails, 0, 0, "none")
                 /\ hpc' = [hpc EXCEPT ![r] = "assistant"]
                 /\ UNCHANGED hreq
          [] backend = "getset" ->
               \E fails \in BOOLEAN :
                 IF fails
                 THEN /\ sev' = StoreEvent("read", s, HistoryLimit, <<>>, TRUE, 0, 500, "storage")
                      /\ Answer(r)
                 ELSE /\ sev' = StoreEvent("read", s, HistoryLimit,
                                           GetSetRead(redisString[s], HistoryLimit),
                                           FALSE, 0, 0, "none")
                      /\ hpc' = [hpc EXCEPT ![r] = "assistant"]
                      /\ UNCHANGED hreq
  /\ UNCHANGED <<backend, memoryStorage, redisList, redisString, requests, now, appended>>
  /\ UNCHANGED exceptStore

\* server.js:115-118: the orchestration answers, or rejects and the route's
\* catch answers 500
AgentAssistant(r) ==
  /\ hpc[r] = "assistant"
  /\ \E answered \in BOOLEAN :
       IF answered
       THEN /\ hreq' = [hreq EXCEPT ![r].responseText = "reply"]
            /\ hpc' = [hpc EXCEPT ![r] = "store"]
            /\ sev' = StoreEvent("assistant", hreq[r].session, 0, <<>>, FALSE, 0, 0, "none")
       ELSE /\ sev' = StoreEvent("assistant", hreq[r].session, 0, <<>>, FALSE, 0, 500, "assistant")
            /\ Answer(r)
  /\ UNCHANGED <<backend, memoryStorage, redisList, redisString, requests, now, appended>>
  /\ UNCHANGED exceptStore

\* server.js:120-127: the turn is stored and the request answered.
\* memory: server.js:68-78.  list: part_001:5-33, a failing lPush or expire is
\* caught.  get/set: redismanagement.js:3-5, the get; a failure is not caught.
AgentStore(r) ==
  /\ hpc[r] = "store"
  /\ LET s == hreq[r].session
         entry == ChatEntry(hreq[r].message, hreq[r].responseText, now + 1)
     IN CASE backend = "memory" ->
               /\ memoryStorage' = [memoryStorage EXCEPT ![s] = MemoryAppend(@, entry)]
               /\ now' = now + 1
               /\ appended' = [appended EXCEPT ![s] = Append(@, entry)]
               /\ sev' = StoreEvent("append", s, 0, <<>>, FALSE, StoredCount(s), 200, "none")
               /\ Answer(r)
               /\ UNCHANGED <<redisList, redisString>>
          [] backend = "list" ->
               \E pushFails, expireFails \in BOOLEAN :
                 /\ now' = now + 1
                 /\ IF pushFails
                    THEN UNCHANGED <<redisList, appended>>
                    ELSE /\ redisList' = [redisList EXCEPT ![s] = ListAppend(@, entry)]
                         /\ appended' = [appended EXCEPT ![s] = Append(@, entry)]
                 /\ sev' = StoreEvent(IF pushFails THEN "append.lost" ELSE "append", s, 0,
                                      IF pushFails THEN <<entry>> ELSE <<>>,
                                      pushFails \/ expireFails, StoredCount(s), 200, "none")
                 /\ Answer(r)
                 /\ UNCHANGED <<memoryStorage, redisString>>
          [] backend = "getset" ->
               \E fails \in BOOLEAN :
                 /\ IF fails
                    THEN /\ sev' = StoreEvent("append.lost", s, 0,
                                              <<BotEntry(hreq[r].message, hreq[r].responseText)>>,
                                              TRUE, StoredCount(s), 500, "storage")
                         /\ Answer(r)
                    ELSE /\ hreq' = [hreq EXCEPT ![r].messages = GetSetMessages(redisString[s])]
                         /\ hpc' = [hpc EXCEPT ![r] = "store.set"]
                         /\ sev' = StoreEvent("get", s, 0, <<>>, FALSE, StoredCount(s), 0, "none")
                 /\ UNCHANGED <<memoryStorage, redisList, redisString, now, appended>>
  /\ UNCHANGED <<backend, requests>>
  /\ UNCHANGED exceptStore

\* redismanagement.js:7-9 and server.js:127: the turn is pushed onto the array
\* that was read and the array is written back
AgentStoreSet(r) ==
  /\ hpc[r] = "store.set"
  /\ LET s == hreq[r].session
         messages == hreq[r].messages
         entry == BotEntry(hreq[r].message, hreq[r].responseText)
     IN \E fails \in BOOLEAN :
          IF fails
          THEN /\ sev' = StoreEvent("append.lost", s, 0, <<entry>>, TRUE, Len(messages), 500,
                                    "storage")
               /\ UNCHANGED <<redisString, appended>>
          ELSE /\ redisString' = [redisString EXCEPT ![s] = GetSetAppend(messages, entry)]
               /\ appended' = [appended EXCEPT ![s] = Append(@, entry)]
               /\ sev' = StoreEvent("append", s, 0, <<>>, FALSE, Len(messages), 200, "none")
  /\ Answer(r)
  /\ UNCHANGED <<backend, memoryStorage, redisList, requests, now>>
  /\ UNCHANGED exceptStore

\* a read of the store with a limit of the caller's choosing:
\* memoryGetChatHistory(s, w) or getChatHistory(s, w).  part_001:48-51 turns a
\* failing lRange into []; redismanagement.js:13 has no catch, the rejection of
\* client.get reaches the caller (fault "storage")
ReadHistory(s, w) ==
  /\ CASE backend = "memory" ->
            sev' = StoreEvent("read", s, w, MemoryRead(memoryStorage[s], w), FALSE, 0, 0, "none")
       [] backend = "list" ->
            \E fails \in BOOLEAN :
              sev' = StoreEvent("read", s, w,
                                IF fails THEN <<>> ELSE ListRead(redisList[s], w),
                                fails, 0, 0, "none")
       [] backend = "getset" ->
            \E fails \in BOOLEAN :
              sev' = StoreEvent("read", s, w,
                                IF fails THEN <<>> ELSE GetSetRead(redisString[s], w),
                                fails, 0, 0, IF fails THEN "storage" ELSE "none")
  /\ UNCHANGED <<backend, memoryStorage, redisList, redisString, requests, now, hpc, hreq,
                 appended>>
  /\ UNCHANGED exceptStore

InitStore ==
  /\ AgentInit /\ (\E b \in Backends : StoreInit(b)) /\ DispatchInit /\ CalendarInit
  /\ AvailabilityIdle /\ EnrichIdle /\ ServerIdle /\ WorkflowIdle

NextStore ==
  \/ \E r \in Requests :
       \/ AgentReceive(r)
       \/ AgentHistory(r)
       \/ AgentAssistant(r)
       \/ AgentStore(r)
       \/ AgentStoreSet(r)
  \/ \E s \in Sessions, w \in Limits : ReadHistory(s, w)

SpecStore == InitStore /\ [][NextStore]_vars

\* the route alone, without reads made directly on the store
NextRoute ==
  \E r \in Requests :
    \/ AgentReceive(r)
    \/ AgentHistory(r)
    \/ AgentAssistant(r)
    \/ AgentStore(r)
    \/ AgentStoreSet(r)

SpecRoute == InitStore /\ [][NextRoute]_vars

(***************************************************************************)
(* The graph of one invocation (agent.js:1956-1965) with the dispatch of   *)
(* toolExecutionNode, one Tool Call Request per step.                      *)
(***************************************************************************)
DispatchEvent(op, at, thrown, pushed) ==
  [op |-> op, at |-> at, thrown |-> thrown, pushed |-> pushed]

\* agent.js:1959 and 1970: invoke enters the graph by the edge __start__ -> llmNode
graphStart ==
  /\ node = "__start__"
  /\ node' = "llmNode"
  /\ dev' = DispatchEvent("start", 0, FALSE, <<>>)
  /\ UNCHANGED <<tool_calls, cursor, results, returned, invoked, threw, running>>
  /\ UNCHANGED exceptDispatch

\* agent.js:1694-1706 and 1960-1963: the model answers and determineNextStep
\* routes; 1776: the node entered starts with an empty results array
llmNode ==
  /\ node = "llmNode"
  /\ \E message \in ToolCallArrays :
       /\ tool_calls' = message
       /\ node' = IF determineNextStep(message) = "ExecuteTool"
                  THEN "toolExecutionNode" ELSE "__end__"
  /\ cursor' = 1
  /\ results' = <<>>
  /\ returned' = <<>>
  /\ invoked' = {}
  /\ threw' = {}
  /\ running' = {}
  /\ dev' = DispatchEvent("llmNode", 0, FALSE, <<>>)
  /\ UNCHANGED exceptDispatch

\* agent.js:1786-1908: a request that resolves is invoked inside the try block;
\* a name inherited from Object.prototype resolves to something without invoke,
\* so its execution always throws
executeTool ==
  /\ node = "toolExecutionNode"
  /\ cursor <= Len(tool_calls)
  /\ Resolves(tool_calls[cursor])
  /\ \E thrown \in BOOLEAN :
       /\ tool_calls[cursor].name \in InheritedNames => thrown
       /\ results' = results \o ExecutionResult(tool_calls[cursor], thrown)
       /\ threw' = IF thrown THEN threw \cup {cursor} ELSE threw
       /\ dev' = DispatchEvent("execute", cursor, thrown,
                               ExecutionResult(tool_calls[cursor], thrown))
  /\ invoked' = invoked \cup {cursor}
  /\ cursor' = cursor + 1
  /\ UNCHANGED <<node, tool_calls, returned, running>>
  /\ UNCHANGED exceptDispatch

\* agent.js:1909-1921: a request that does not resolve
invalidTool ==
  /\ node = "toolExecutionNode"
  /\ cursor <= Len(tool_calls)
  /\ ~Resolves(tool_calls[cursor])
  /\ results' = results \o InvalidResult(tool_calls[cursor])
  /\ dev' = DispatchEvent("invalid", cursor, FALSE, InvalidResult(tool_calls[cursor]))
  /\ cursor' = cursor + 1
  /\ UNCHANGED <<node, tool_calls, returned, invoked, threw, running>>
  /\ UNCHANGED exceptDispatch

\* agent.js:1925-1938 and 1964: the node returns its messages and the edge
\* toolExecutionNode -> llmNode is taken
toolExecutionNodeReturn ==
  /\ node = "toolExecutionNode"
  /\ cursor > Len(tool_calls)
  /\ returned' = NodeMessages(results)
  /\ node' = "llmNode"
  /\ dev' = DispatchEvent("return", 0, FALSE, <<>>)
  /\ UNCHANGED <<tool_calls, cursor, results, invoked, threw, running>>
  /\ UNCHANGED exceptDispatch

NextGraph ==
  \/ graphStart
  \/ llmNode
  \/ executeTool
  \/ invalidTool
  \/ toolExecutionNodeReturn

\* every awaited call of the invocation (the model, a tool) settles
SpecGraph == Init /\ [][NextGraph]_vars /\ WF_vars(NextGraph)

(***************************************************************************)
(* toolExecutionNode (agent.js:1775-1940) with its awaited invocations: a  *)
(* step runs from one await to the next.                                   *)
(***************************************************************************)
\* the requests of a model message: a sendEmail for a proposal that has to be
\* generated first (agent.js:1823-1832), another sendEmail, a scheduleMeeting,
\* and a name that does not resolve
AwaitShapes ==
  {[name |-> "sendEmail", generates |-> TRUE], [name |-> "sendEmail", generates |-> FALSE],
   [name |-> "scheduleMeeting", generates |-> FALSE],
   [name |-> "doesThingX", generates |-> FALSE]}

DispatchArrays ==
  {[k \in 1..Len(shape) |->
      [name |-> shape[k].name, id |-> ToString(k), generates |-> shape[k].generates]] :
     shape \in SeqsUpTo(AwaitShapes, MaxToolCalls)}

\* a dispatch that starts every request at once
MayBeginWhileAwaiting(awaited) == TRUE
\* agent.js:1785 with the awaits at 1827, 1842, 1860, 1881 and 1893: the loop
\* goes on to the next request when the invocation it awaits has settled
MayBegin(awaited) == awaited = {}

\* agent.js:1775-1784: the node is entered with the tool_calls of the last message
enterNode ==
  /\ node = "__start__"
  /\ \E message \in DispatchArrays \ {<<>>} : tool_calls' = message
  /\ node' = "toolExecutionNode"
  /\ cursor' = 1
  /\ dev' = DispatchEvent("enter", 0, FALSE, <<>>)
  /\ UNCHANGED <<results, returned, invoked, threw, running>>
  /\ UNCHANGED exceptDispatch

\* agent.js:1786-1893 up to the first await of the iteration: the nested
\* generateProjectProposal (1827) when the proposal has to be generated, the
\* tool itself otherwise
invokeTool ==
  /\ node = "toolExecutionNode"
  /\ cursor <= Len(tool_calls)
  /\ MayBegin(running)
  /\ Resolves(tool_calls[cursor])
  /\ running' = running \cup
                  {[at |-> cursor,
                    tool |-> IF tool_calls[cursor].generates
                             THEN "generateProjectProposal"
                             ELSE tool_calls[cursor].name]}
  /\ invoked' = invoked \cup {cursor}
  /\ cursor' = cursor + 1
  /\ dev' = DispatchEvent("invoke", cursor, FALSE, <<>>)
  /\ UNCHANGED <<node, tool_calls, results, returned, threw>>
  /\ UNCHANGED exceptDispatch

\* an awaited invocation settles: after the nested generation sendEmail is
\* invoked (1834-1842); after the tool its result is pushed (1843-1849,
\* 1894-1899); a rejection of either goes to the catch (1900-1907)
invokeSettled ==
  /\ node = "toolExecutionNode"
  /\ \E r \in running, thrown \in BOOLEAN :
       IF r.tool = "generateProjectProposal" /\ ~thrown
       THEN /\ running' = (running \ {r}) \cup {[at |-> r.at, tool |-> tool_calls[r.at].name]}
            /\ dev' = DispatchEvent("generated", r.at, FALSE, <<>>)
            /\ UNCHANGED <<results, threw>>
       ELSE /\ running' = running \ {r}
            /\ results' = results \o ExecutionResult(tool_calls[r.at], thrown)
            /\ threw' = IF thrown THEN threw \cup {r.at} ELSE threw
            /\ dev' = DispatchEvent("settled", r.at, thrown,
                                    ExecutionResult(tool_calls[r.at], thrown))
  /\ UNCHANGED <<node, tool_calls, cursor, returned, invoked>>
  /\ UNCHANGED exceptDispatch

\* agent.js:1909-1921: a request that does not resolve is answered without an await
invalidRequest ==
  /\ node = "toolExecutionNode"
  /\ cursor <= Len(tool_calls)
  /\ MayBegin(running)
  /\ ~Resolves(tool_calls[cursor])
  /\ results' = results \o InvalidResult(tool_calls[cursor])
  /\ dev' = DispatchEvent("invalid", cursor, FALSE, InvalidResult(tool_calls[cursor]))
  /\ cursor' = cursor + 1
  /\ UNCHANGED <<node, tool_calls, returned, invoked, threw, running>>
  /\ UNCHANGED exceptDispatch

\* agent.js:1925-1938: the loop is over and the node returns its messages
nodeReturns ==
  /\ node = "toolExecutionNode"
  /\ cursor > Len(tool_calls)
  /\ running = {}
  /\ returned' = NodeMessages(results)
  /\ node' = "__end__"
  /\ dev' = DispatchEvent("return", 0, FALSE, <<>>)
  /\ UNCHANGED <<tool_calls, cursor, results, invoked, threw, running>>
  /\ UNCHANGED exceptDispatch

NextDispatch ==
  \/ enterNode
  \/ invokeTool
  \/ invokeSettled
  \/ invalidRequest
  \/ nodeReturns

SpecDispatch == Init /\ [][NextDispatch]_vars

(***************************************************************************)
(* scheduleMeeting and rescheduleMeeting over the primary calendar.        *)
(***************************************************************************)
CalendarEvent(op, meetingId, meetingType, success) ==
  [op |-> op, meetingId |-> meetingId, meetingType |-> meetingType, success |-> success,
   flag |-> "none", api |-> <<>>, notice |-> "none"]

\* calendarTools.js:36-43: transporter.sendMail is awaited inside a try/catch
\* that logs either outcome and returns
sendMeetingEmail(delivered) == IF delivered THEN "sent" ELSE "failed"

ScheduleResultMailDecides(inserted, delivered) ==
  [success |-> inserted /\ delivered,
   api |-> IF inserted THEN <<"insert", "sendMail">> ELSE <<"insert.failed">>,
   notice |-> IF inserted THEN sendMeetingEmail(delivered) ELSE "none"]
\* calendarTools.js:239-275: events.insert, then sendMeetingEmail, then the
\* success result; a throw of the insert skips both and is answered by the
\* catch with success false
ScheduleResult(inserted, delivered) ==
  [success |-> inserted,
   api |-> IF inserted THEN <<"insert", "sendMail">> ELSE <<"insert.failed">>,
   notice |-> IF inserted THEN sendMeetingEmail(delivered) ELSE "none"]

\* the sendNotification argument of cancelMeeting: true, false or left out
NotificationFlags == {"true", "false", "omitted"}

sendUpdatesAsGiven(sendNotification) ==
  IF sendNotification = "true" THEN "all" ELSE "none"
\* calendarTools.js:380-384, 398: the parameter defaults to true and picks
\* sendUpdates of the delete
sendUpdates(sendNotification) ==
  LET flag == IF sendNotification = "omitted" THEN "true" ELSE sendNotification
  IN IF flag = "true" THEN "all" ELSE "none"

\* calendarTools.js:180-275: the event is built from the arguments and inserted
\* under an id the calendar chooses; a failing insert is caught (270-275)
scheduleMeeting ==
  /\ \E id \in MeetingIds, date \in Dates, startTime \in StartTimes,
        meetingType \in MeetingTypes, timeZone \in TimeZones, inserted \in BOOLEAN,
        delivered \in BOOLEAN :
       /\ events[id] = NoMeeting
       /\ LET meetingDuration == getMeetingDurationMinutes(meetingType)
              startDateTime == formatDateTimeForGoogle(date, startTime, timeZone)
              endDateTime == EndDateTime(startDateTime, meetingDuration)
          IN IF inserted
             THEN events' = [events EXCEPT ![id] = EventTimes(startDateTime, endDateTime, timeZone)]
             ELSE UNCHANGED events
       /\ LET result == ScheduleResult(inserted, delivered)
          IN cev' = [CalendarEvent("scheduleMeeting", id, meetingType, result.success)
                       EXCEPT !.api = result.api, !.notice = result.notice]
  /\ UNCHANGED <<durationBefore, canceled>>
  /\ UNCHANGED exceptCalendar

\* calendar.events.get of a known id: the calendar keeps a deleted event and may
\* still return it (marked cancelled) or answer that it is gone; the tools look
\* at neither (calendarTools.js:306-311, 387-392)
GetAnswers(meetingId) == IF meetingId \in canceled THEN BOOLEAN ELSE {TRUE}

\* calendarTools.js:304-362: the event is fetched, its length read off its own
\* start and end, and start and end are replaced; a failing get (unknown id) or
\* update is caught (357-362)
rescheduleMeeting ==
  /\ \E meetingId \in MeetingIds, newDate \in Dates, newStartTime \in StartTimes,
        timeZone \in TimeZones, updated \in BOOLEAN, found \in BOOLEAN :
       IF events[meetingId] = NoMeeting \/ found \notin GetAnswers(meetingId)
       THEN /\ cev' = CalendarEvent("rescheduleMeeting", meetingId, "none", FALSE)
            /\ UNCHANGED <<events, durationBefore>>
       ELSE LET event == events[meetingId]
                durationMinutes == ExistingDurationMinutes(event)
                startDateTime == formatDateTimeForGoogle(newDate, newStartTime, timeZone)
                endDateTime == EndDateTime(startDateTime, durationMinutes)
            IN /\ cev' = CalendarEvent("rescheduleMeeting", meetingId, "none", updated)
               /\ IF updated
                  THEN /\ events' = [events EXCEPT ![meetingId] =
                                       EventTimes(startDateTime, endDateTime, timeZone)]
                       /\ durationBefore' =
                            [durationBefore EXCEPT ![meetingId] =
                               IF @ = NotRescheduled THEN EventLength(event) ELSE @]
                  ELSE UNCHANGED <<events, durationBefore>>
  /\ UNCHANGED canceled
  /\ UNCHANGED exceptCalendar

\* calendarTools.js:385-416: the event is fetched and deleted with the
\* sendUpdates the flag picks; a failing get or delete is caught (411-416)
cancelMeeting ==
  /\ \E meetingId \in MeetingIds, found \in BOOLEAN, deleted \in BOOLEAN,
        sendNotification \in NotificationFlags :
       IF events[meetingId] = NoMeeting \/ found \notin GetAnswers(meetingId)
       THEN /\ cev' = [CalendarEvent("cancelMeeting", meetingId, "none", FALSE)
                         EXCEPT !.api = <<"get.failed">>]
            /\ UNCHANGED canceled
       ELSE /\ cev' = [CalendarEvent("cancelMeeting", meetingId, "none", deleted)
                         EXCEPT !.flag = sendNotification,
                                !.api = <<"get", IF deleted THEN "delete" ELSE "delete.failed">>,
                                !.notice = sendUpdates(sendNotification)]
            /\ canceled' = IF deleted THEN canceled \cup {meetingId} ELSE canceled
  /\ UNCHANGED <<events, durationBefore>>
  /\ UNCHANGED exceptCalendar

\* the event calendar.events.get returns (calendarTools.js:306-311) is whatever
\* the calendar holds: its owner may have changed its end in between
editEvent ==
  /\ \E meetingId \in MeetingIds, length \in EditedLengths :
       /\ events[meetingId] # NoMeeting
       /\ meetingId \notin canceled
       /\ events' = [events EXCEPT ![meetingId].end.dateTime =
                       ToISOString(GetTime(events[meetingId].start.dateTime) + length)]
       /\ durationBefore' = [durationBefore EXCEPT ![meetingId] = NotRescheduled]
       /\ cev' = CalendarEvent("editEvent", meetingId, "none", TRUE)
  /\ UNCHANGED canceled
  /\ UNCHANGED exceptCalendar

NextCalendar ==
  \/ scheduleMeeting
  \/ rescheduleMeeting
  \/ editEvent

SpecCalendar == Init /\ [][NextCalendar]_vars

\* the life of a meeting: scheduled, rescheduled, canceled
NextLifecycle ==
  \/ scheduleMeeting
  \/ rescheduleMeeting
  \/ cancelMeeting

SpecLifecycle == Init /\ [][NextLifecycle]_vars

\* meetings are scheduled and canceled
NextCancel ==
  \/ scheduleMeeting
  \/ cancelMeeting

SpecCancel == Init /\ [][NextCancel]_vars

(***************************************************************************)
(* checkAvailability                                                       *)
(***************************************************************************)
\* the array of the call before, kept
availableTimesKept == availableTimes

\* calendarTools.js:88: each call starts from an empty array
availableTimesNew == <<>>

\* calendarTools.js:76-148: the scan of the days of the range and the answer
checkAvailability ==
  /\ scans < MaxScans
  /\ scans' = scans + 1
  /\ availableTimes' = ScanDates(availableTimesNew, query.startDate, query.endDate, localDateLag,
                                 query.timeZone, busySlots)
  /\ response' = AvailabilityResponse(availableTimes', query.timeZone)
  /\ previous' = response
  /\ UNCHANGED <<busySlots, query, localDateLag>>
  /\ UNCHANGED exceptAvailability

InitAvailability ==
  /\ AgentInit /\ StoreInit("memory") /\ DispatchInit /\ CalendarInit /\ EnrichIdle
  /\ ServerIdle /\ WorkflowIdle
  /\ \E reported \in BusyReports, q \in Queries, lag \in {0, 1} :
       AvailabilityInit(reported, q, lag)

NextAvailability == checkAvailability

SpecAvailability == InitAvailability /\ [][NextAvailability]_vars

(***************************************************************************)
(* toolExecutionNode on a sendEmail request for a proposal                 *)
(***************************************************************************)
EnrichEvent(entered, generated, attached, transports, html) ==
  [op |-> "sendEmail", entered |-> entered, generated |-> generated,
   attached |-> attached, transports |-> transports, html |-> html,
   args |-> NoArgs, found |-> FALSE, invoked |-> <<>>]

\* agent.js:1021-1053 on the arguments the dispatch hands to sendEmail
SendProposalEmail(entered, generated, isProposal, proposal) ==
  IF SendEmailExit(emailSentInCurrentSession, emailArgs.to, emailArgs.subject) = "transport"
  THEN eev' = EnrichEvent(entered, generated, proposal, 1,
                          EmailBody(emailArgs.body, isProposal, proposal))
  ELSE eev' = EnrichEvent(entered, generated, proposal, 0, [html |-> <<>>])

\* agent.js:1789-1866 and 1893: the request is enriched from the conversation
\* when its subject or body mentions "proposal", and sendEmail is invoked once
dispatchProposalEmail ==
  /\ eev.op = "none"
  /\ conversation # <<>>
  /\ LET clientInfo == handleClientRequirements(conversation)
     IN  IF MentionsProposal(emailArgs) /\ clientInfo.found
         THEN IF clientInfo.needsProposalGeneration
              THEN SendProposalEmail(TRUE, 1, TRUE,
                                     generateProjectProposal(clientInfo.requirements))
              ELSE SendProposalEmail(TRUE, 0, TRUE, clientInfo.proposal)
         ELSE SendProposalEmail(MentionsProposal(emailArgs), 0, FALSE, NoProposal)
  /\ UNCHANGED <<conversation, emailArgs>>
  /\ UNCHANGED exceptEnrich

InitEnrich ==
  /\ AgentInit /\ StoreInit("memory") /\ DispatchInit /\ CalendarInit /\ AvailabilityIdle
  /\ ServerIdle /\ WorkflowIdle
  /\ \E content \in UserTexts, keepsRole \in BOOLEAN, history \in Histories,
        toolArgs \in ProposalEmailArgs :
       EnrichInit(Conversation(content, keepsRole, history), toolArgs)

\* the scheduleMeeting requests of the model: projectName left out, empty or given
ScheduleArgs ==
  [clientName : {"ABC Company"}, projectName : {"undefined", "", "Storefront"}]

\* a value JavaScript treats as false in a condition
Falsy(value) == value \in {"undefined", ""}
\* a || b || c
FirstTruthy(a, b, c) == IF ~Falsy(a) THEN a ELSE IF ~Falsy(b) THEN b ELSE c

NeedsProjectNameWhenFound(clientInfo, args) == clientInfo.found
\* agent.js:1874
NeedsProjectName(clientInfo, args) == clientInfo.found /\ Falsy(args.projectName)

\* agent.js:1876-1879
EnhancedArgs(clientInfo, args) ==
  [args EXCEPT !.projectName =
     FirstTruthy(clientInfo.projectType, args.projectName, "Project Discussion")]

\* agent.js:1867-1899: a scheduleMeeting request with arguments gets its
\* projectName from the conversation when it has none, and the tool is invoked
\* once, enhanced (1881) or as requested (1893); without arguments it is
\* invoked with {}
dispatchScheduleMeeting ==
  /\ eev.op = "none"
  /\ conversation # <<>>
  /\ \E args \in ScheduleArgs \cup {NoArgs} :
       LET clientInfo == IF args = NoArgs THEN NoClientInfo
                         ELSE handleClientRequirements(conversation)
           passed == IF args = NoArgs THEN [none |-> FALSE]
                     ELSE IF NeedsProjectName(clientInfo, args)
                          THEN EnhancedArgs(clientInfo, args)
                          ELSE args
       IN eev' = [NoEnrichEvent EXCEPT !.op = "scheduleMeeting", !.args = args,
                                       !.found = clientInfo.found,
                                       !.invoked = <<passed>>]
  /\ UNCHANGED <<conversation, emailArgs>>
  /\ UNCHANGED exceptEnrich

NextEnrich ==
  \/ dispatchProposalEmail
  \/ dispatchScheduleMeeting

SpecEnrich == InitEnrich /\ [][NextEnrich]_vars

(***************************************************************************)
(* server.js: module load, connectRedis, and the /agent route              *)
(***************************************************************************)
\* server.js:17-41: the client is created from the environment
loadModule ==
  /\ spc = "load"
  /\ client' = CreatedClient(env)
  /\ isReady' = ReadyAtCreation(client')
  /\ spc' = "connectRedis"
  /\ UNCHANGED <<env, durableUp, served, bev>>
  /\ UNCHANGED exceptServer

\* server.js:47-58 up to the await: client.on throws a TypeError on a client
\* without that method, which the catch (60-64) answers with client = null
connectRedis ==
  /\ spc = "connectRedis"
  /\ IF HasOn(client)
     THEN /\ spc' = "connect"
          /\ UNCHANGED <<client, isReady>>
     ELSE /\ client' = "null"
          /\ isReady' = FALSE
          /\ spc' = "running"
  /\ UNCHANGED <<env, durableUp, served, bev>>
  /\ UNCHANGED exceptServer

\* server.js:58-64: the awaited client.connect() settles; a rejection sets
\* client = null
connectSettled ==
  /\ spc = "connect"
  /\ IF durableUp
     THEN /\ isReady' = TRUE
          /\ UNCHANGED client
     ELSE /\ client' = "null"
          /\ isReady' = FALSE
  /\ spc' = "running"
  /\ UNCHANGED <<env, durableUp, served, bev>>
  /\ UNCHANGED exceptServer

\* the durable backend goes away or comes back; a connected client follows
\* with isReady, a client that never connected does not
backendChanges ==
  /\ durableUp' = ~durableUp
  /\ isReady' = IF client \in {"createClient()", "createClient({ url })"} /\ spc = "running"
                THEN durableUp'
                ELSE isReady
  /\ UNCHANGED <<env, client, spc, served, bev>>
  /\ UNCHANGED exceptServer

\* server.js:88-127: a request is served with the store the client test picks
\* (98, 121), and the turn pairs the message with the extracted text (118-125)
agentRequest ==
  /\ spc \in {"connect", "running"}
  /\ served < MaxServed
  /\ served' = served + 1
  /\ \E message \in UserTexts, history \in Histories, text \in FinalTexts,
        hasKwargs \in BOOLEAN :
       LET aiResponse == ResultMessages(message, history, text)
       IN  bev' = [op |-> "request", backend |-> ServingBackend(client, isReady),
                   reachable |-> durableUp, settled |-> spc = "running",
                   user |-> message,
                   ai |-> ResponseText(aiResponse, hasKwargs),
                   final |-> aiResponse[Len(aiResponse)].content]
  /\ UNCHANGED <<env, client, isReady, durableUp, spc>>
  /\ UNCHANGED exceptServer

InitServer ==
  /\ AgentInit /\ StoreInit("memory") /\ DispatchInit /\ CalendarInit /\ AvailabilityIdle
  /\ EnrichIdle /\ WorkflowIdle
  /\ \E e \in Environments, up \in BOOLEAN : ServerInit(e, up)

NextServer ==
  \/ loadModule
  \/ connectRedis
  \/ connectSettled
  \/ backendChanges
  \/ agentRequest

SpecServer == InitServer /\ [][NextServer]_vars

(***************************************************************************)
(* The store under two request handlers and a client whose isReady changes *)
(* (server.js:96-125 with the memory store 67-82 and either durable        *)
(* module).  Commands fail here only by the client not being ready.        *)
(***************************************************************************)
Handlers == {1, 2}
DurableModules == {"list", "getset"}

\* a list key shared by the sessions
ChatKeyShared(sessionId) == <<"chat:", "s1">>

\* part_001:23 and 44, the list key `chat:${sessionId}`
ChatKey(sessionId) == <<"chat:", sessionId>>

exceptSessions ==
  <<agentVars, dispatchVars, calendarVars, availabilityVars, enrichVars,
    env, client, durableUp, spc, served, bev,
                  workflowVars>>

\* the turns the durable store holds under a session's key
DurableTurns(s) ==
  IF backend = "list"
  THEN [k \in 1..Len(redisList[ChatKey(s)]) |-> Parse(redisList[ChatKey(s)][k])]
  ELSE GetSetMessages(redisString[s])

\* server.js:121-125: the turn of a completed cycle is stored.  Not ready:
\* memoryStoreChat (68-78), synchronous.  list: one lPush (part_001:23).
\* get/set: the get of redismanagement.js:4, the handler then awaits
storeTurn(h) ==
  /\ hpc[h] = "idle"
  /\ requests < MaxTurns
  /\ requests' = requests + 1
  /\ \E s \in Sessions :
       LET entry == ChatEntry(requests + 1, "reply", now + 1)
       IN  IF ~isReady
           THEN /\ memoryStorage' = [memoryStorage EXCEPT ![s] = MemoryAppend(@, entry)]
                /\ appended' = [appended EXCEPT ![s] = Append(@, entry)]
                /\ now' = now + 1
                /\ sev' = StoreEvent("append", s, 0, <<entry>>, FALSE, 0, 200, "memory")
                /\ UNCHANGED <<redisList, redisString, hpc, hreq>>
           ELSE IF backend = "list"
           THEN /\ redisList' = [redisList EXCEPT ![ChatKey(s)] = ListAppend(@, entry)]
                /\ appended' = [appended EXCEPT ![s] = Append(@, entry)]
                /\ now' = now + 1
                /\ sev' = StoreEvent("append", s, 0, <<entry>>, FALSE, 0, 200, "list")
                /\ UNCHANGED <<memoryStorage, redisString, hpc, hreq>>
           ELSE /\ hreq' = [hreq EXCEPT ![h] =
                              [NoLocals EXCEPT !.session = s, !.message = requests + 1,
                                               !.responseText = "reply",
                                               !.messages = GetSetMessages(redisString[s])]]
                /\ hpc' = [hpc EXCEPT ![h] = "store.set"]
                /\ sev' = StoreEvent("get", s, 0, <<>>, FALSE, 0, 0, "getset")
                /\ UNCHANGED <<memoryStorage, redisList, redisString, appended, now>>
  /\ UNCHANGED <<backend, isReady>>
  /\ UNCHANGED exceptSessions

\* redismanagement.js:7-9: the array read is pushed onto and written back; the
\* set of a client that is no longer ready rejects (server.js:129-132)
storeTurnSet(h) ==
  /\ hpc[h] = "store.set"
  /\ LET s == hreq[h].session
         entry == BotEntry(hreq[h].message, hreq[h].responseText)
     IN  IF isReady
         THEN /\ redisString' = [redisString EXCEPT ![s] = GetSetAppend(hreq[h].messages, entry)]
              /\ appended' = [appended EXCEPT ![s] = Append(@, entry)]
              /\ sev' = StoreEvent("append", s, 0, <<entry>>, FALSE, 0, 200, "getset")
         ELSE /\ sev' = StoreEvent("append.lost", s, 0, <<entry>>, TRUE, 0, 500, "storage")
              /\ UNCHANGED <<redisString, appended>>
  /\ Answer(h)
  /\ UNCHANGED <<backend, isReady, memoryStorage, redisList, requests, now>>
  /\ UNCHANGED exceptSessions

\* server.js:98-102: the history of a session is read from the store the
\* client test picks
readTurns(s, w) ==
  /\ sev' = StoreEvent("read", s, w,
                       IF ~isReady THEN MemoryRead(memoryStorage[s], w)
                       ELSE IF backend = "list" THEN ListRead(redisList[ChatKey(s)], w)
                       ELSE GetSetRead(redisString[s], w),
                       FALSE, 0, 0, IF isReady THEN backend ELSE "memory")
  /\ UNCHANGED <<backend, isReady, memoryStorage, redisList, redisString, requests, now,
                 hpc, hreq, appended>>
  /\ UNCHANGED exceptSessions

\* the connection to the durable store is lost or restored: client.isReady
readyChanges ==
  /\ isReady' = ~isReady
  /\ sev' = StoreEvent("isReady", NoSession, 0, <<>>, FALSE, 0, 0, "none")
  /\ UNCHANGED <<backend, memoryStorage, redisList, redisString, requests, now, hpc, hreq,
                 appended>>
  /\ UNCHANGED exceptSessions

\* server.js:17-65 after a successful connection, with either durable module
InitSessions ==
  /\ AgentInit /\ DispatchInit /\ CalendarInit /\ AvailabilityIdle /\ EnrichIdle
  /\ WorkflowIdle
  /\ env = [upstash |-> FALSE, redisUrl |-> TRUE]
  /\ client = CreatedClient(env)
  /\ isReady = TRUE
  /\ durableUp = TRUE
  /\ spc = "running"
  /\ served = 0
  /\ bev = NoServerEvent
  /\ backend \in DurableModules
  /\ memoryStorage = [s \in Sessions |-> <<>>]
  /\ redisList = [k \in {ChatKey(s) : s \in Sessions} |-> <<>>]
  /\ redisString = [s \in Sessions |-> Nil]
  /\ requests = 0
  /\ now = 0
  /\ hpc = [h \in Handlers |-> "idle"]
  /\ hreq = [h \in Handlers |-> NoLocals]
  /\ appended = [s \in Sessions |-> <<>>]
  /\ sev = NoStoreEvent

NextSessions ==
  \/ \E h \in Handlers : storeTurn(h) \/ storeTurnSet(h)
  \/ \E s \in Sessions, w \in Limits : readTurns(s, w)
  \/ readyChanges

SpecSessions == InitSessions /\ [][NextSessions]_vars

(***************************************************************************)
(* proposalWorkflow (agent.js:1991-2040): generateProposal, reviewProposal *)
(* and the conditional edge after the review.                              *)
(***************************************************************************)
\* state.request of an invocation
ProposalRequests == {"web shop", "mobile app", "dashboard"}
\* proposal.content, what the generating model answers
ProposalDrafts == {"draft 1", "draft 2", "draft 3", "draft 4"}
\* review.content, what the reviewing model answers, as its words
ReviewFeedbacks ==
  { <<"Looks", "good">>,
    <<"Approved">>,
    <<"Please", "REVISE", "the", "budget">>,
    <<"Could", "Improve", "the", "timeline">>,
    <<"No", "improvements", "needed">>,
    <<"Revised", "scope", "reads", "well">> }

\* String.prototype.toLowerCase on the words of a feedback
LowerCaseWord(word) ==
  CASE word = "Looks" -> "looks"
    [] word = "Approved" -> "approved"
    [] word = "Please" -> "please"
    [] word = "REVISE" -> "revise"
    [] word = "Could" -> "could"
    [] word = "Improve" -> "improve"
    [] word = "No" -> "no"
    [] word = "Revised" -> "revised"
    [] OTHER -> word
toLowerCase(text) == [k \in DOMAIN text |-> LowerCaseWord(text[k])]

\* String.prototype.includes: the needle is a substring of the text
includes(text, needle) ==
  \E k \in DOMAIN text :
    \/ text[k] = needle
    \/ text[k] = "revised" /\ needle = "revise"
    \/ text[k] = "improvements" /\ needle = "improve"

routeReviewReviseOnly(state) ==
  IF includes(toLowerCase(state.feedback), "revise") THEN "Revise" ELSE "Approve"
\* agent.js:2022-2032: the condition of the edge that leaves reviewProposal
routeReview(state) ==
  IF \/ includes(toLowerCase(state.feedback), "revise")
     \/ includes(toLowerCase(state.feedback), "improve")
  THEN "Revise"
  ELSE "Approve"

\* agent.js:2033-2036: where each answer of the condition leads
ReviewEdges(answer) == IF answer = "Revise" THEN "generateProposal" ELSE "__end__"

\* proposalWorkflow.invoke({request}): a run starts at __start__, whose edge
\* leads to generateProposal (agent.js:2038)
invokeWorkflow ==
  /\ wnode \in {"__start__", "__end__"}
  /\ \E request \in ProposalRequests :
       wstate' = [NoWorkflowState EXCEPT !.request = request]
  /\ wnode' = "generateProposal"
  /\ wprev' = "none"
  /\ UNCHANGED <<agentVars, storeVars, dispatchVars, calendarVars, availabilityVars,
                 enrichVars, serverVars>>

\* agent.js:1992-2006 and the edge at 2039: the draft replaces state.response
generateProposal ==
  /\ wnode = "generateProposal"
  /\ \E content \in ProposalDrafts :
       wstate' = [wstate EXCEPT !.response = content]
  /\ wnode' = "reviewProposal"
  /\ wprev' = "generateProposal"
  /\ UNCHANGED <<agentVars, storeVars, dispatchVars, calendarVars, availabilityVars,
                 enrichVars, serverVars>>

\* agent.js:2007-2037: the review replaces state.feedback and the conditional
\* edge picks the next node from it
reviewProposal ==
  /\ wnode = "reviewProposal"
  /\ \E content \in ReviewFeedbacks :
       LET state == [wstate EXCEPT !.feedback = content]
       IN /\ wstate' = state
          /\ wnode' = ReviewEdges(routeReview(state))
  /\ wprev' = "reviewProposal"
  /\ UNCHANGED <<agentVars, storeVars, dispatchVars, calendarVars, availabilityVars,
                 enrichVars, serverVars>>

NextWorkflow ==
  \/ invokeWorkflow
  \/ generateProposal
  \/ reviewProposal

\* every awaited call of a node (the generating or the reviewing model) settles
SpecWorkflow == Init /\ [][NextWorkflow]_vars /\ WF_vars(NextWorkflow)

(***************************************************************************)
(* Claims about the e-mail tool and the guard flag.                        *)
(***************************************************************************)
IsSendEmailCall == ev.op = "sendEmail"

\* C1 as stated: every sendEmail call whose requested recipient is not the
\* operator address invokes no transport and returns the security notice,
\* whatever the guard flag and the subject.
C1_DeclinedAlwaysSecurityNotice ==
  (IsSendEmailCall /\ ev.to # secureRecipient) =>
     (ev.transport = "none" /\ ev.result = SecurityNotice)

\* C1 as amended: such a call never invokes the transport; it returns the
\* security notice, except that with the guard flag set and a subject containing
\* "Revised" the duplicate check comes first and the skip notice is returned.
C1_DeclinedNeverReachesTransport ==
  (IsSendEmailCall /\ ev.to # secureRecipient) =>
     /\ ev.transport = "none"
     /\ ev.result = IF ev.flagBefore /\ ev.revised THEN SkipNotice ELSE SecurityNotice

C1_Witness ==
  /\ IsSendEmailCall
  /\ ev.to = clientAddress
  /\ ev.flagBefore
  /\ ~ev.revised
  /\ ev.result = SecurityNotice

\* C2: every mail-transport invocation made by any tool (sendEmail and the
\* client notification of scheduleMeeting) has the operator address as recipient.
C2_TransportOnlyToOperator ==
  ev.transport # "none" => ev.transport = secureRecipient

\* C3: with requests handled one at a time, a sendEmail call with a "Revised"
\* subject made while the guard flag is set invokes no transport and returns the
\* skip notice; and in an invocation that has not yet sent (the flag was reset at
\* its start), such a call addressed to the operator invokes the transport,
\* whatever earlier invocations sent.
C3_RevisedSkippedUntilReset ==
  (IsSendEmailCall /\ ev.revised) =>
     /\ ev.flagBefore => (ev.result = SkipNotice /\ ev.transport = "none")
     /\ (~ev.ownBefore /\ ev.to = secureRecipient) => ev.transport = secureRecipient

C3_Witness ==
  /\ IsSendEmailCall
  /\ ev.revised
  /\ ev.transport = secureRecipient
  /\ \E j \in Invocations \ {ev.inv} : ownSent[j]

\* C4: within one invocation, once a sendEmail call has been delivered by the
\* transport, no later sendEmail call of that invocation invokes the transport,
\* whatever its subject.
C4_NoSecondSendInInvocation ==
  ~(IsSendEmailCall /\ ev.transport # "none" /\ ev.ownBefore)

\* C5: the guard flag is true after every sendEmail call whose transport send
\* succeeded, and a sendEmail call that is skipped, declined, or whose transport
\* send fails leaves the flag as it found it.
C5_FlagSetOnlyBySuccessfulSend ==
  /\ (ev.op = "sendEmail.settled" /\ ev.result = SentNotice) => emailSentInCurrentSession
  /\ (ev.op = "sendEmail.settled" /\ ev.result = FailedNotice) =>
        emailSentInCurrentSession = ev.flagBefore
  /\ IsSendEmailCall => emailSentInCurrentSession = ev.flagBefore

C5_Witness ==
  /\ ev.op = "sendEmail.settled"
  /\ ev.result = SentNotice
  /\ ~ev.flagBefore
  /\ emailSentInCurrentSession

\* C6: every invocation resets the guard flag exactly once, at its start and
\* before its first Reasoning step, and no step of its Reasoning/ExecutingTools
\* loop resets the flag.
C6_ResetOncePerInvocation ==
  /\ \A i \in Invocations : resets[i] = IF pc[i] = "idle" THEN 0 ELSE 1
  /\ ev.op = "runPortfolioAssistant" => ~emailSentInCurrentSession
  /\ (ev.op \notin {"none", "runPortfolioAssistant"} /\ ev.flagBefore) =>
        emailSentInCurrentSession

C6_Witness ==
  \E i \in Invocations :
    /\ pc[i] = "llmNode"
    /\ loops[i] = MaxLoop
    /\ resets[i] = 1
    /\ ownSent[i]
    /\ emailSentInCurrentSession

\* the two ways one invocation's duplicate decision is changed by another
SkippedWithoutOwnSend ==
  IsSendEmailCall /\ ev.revised /\ ev.result = SkipNotice /\ ~ev.ownBefore

ResentAfterOwnSend ==
  IsSendEmailCall /\ ev.revised /\ ev.transport # "none" /\ ev.ownBefore

\* C7: with two invocations interleaved at their suspension points, a "Revised"
\* send of an invocation that has sent nothing is skipped, or a "Revised" send
\* that follows the invocation's own delivered send reaches the transport; and
\* whenever that happens the flag was last written by the other invocation (its
\* delivered send in the first case, its reset in the second).
C7_InterferenceIsTheOtherInvocation ==
  /\ SkippedWithoutOwnSend =>
        (flagWriter \in Invocations \ {ev.inv} /\ ownSent[flagWriter])
  /\ ResentAfterOwnSend =>
        (flagWriter \in Invocations \ {ev.inv} /\ ~ownSent[flagWriter])

C7_Witness == SkippedWithoutOwnSend

C7_WitnessResent == ResentAfterOwnSend

(***************************************************************************)
(* Claims about the session store and the /agent route.                    *)
(***************************************************************************)
\* the last Min(n, w) appended turns, most recent first
RecentWindow(s, w) == Slice(Reverse(appended[s]), w)

IsRead == sev.op = "read" /\ ~sev.failed

\* C8: on every backend (in-memory, list-based, get/set) a read with limit w
\* after n appends to a session returns exactly the last Min(n, w) appended
\* turns, most recent first.
C8_ReadReturnsRecentWindow ==
  IsRead => sev.result = RecentWindow(sev.session, sev.limit)

\* C8 on the two stores of the route's current version: the in-memory store and
\* the list-based store return the recent window.
C8_RecentWindowOnMemoryAndList ==
  (IsRead /\ backend \in {"memory", "list"}) =>
     sev.result = RecentWindow(sev.session, sev.limit)

C8_WitnessWindowBites ==
  /\ IsRead
  /\ backend = "list"
  /\ Len(appended[sev.session]) > sev.limit
  /\ Len(sev.result) = sev.limit

C10_StorageFailureStillAnswers ==
  sev.failed => sev.status # 500

\* C10 on the list-based store: a failed read or append is absorbed and the
\* request goes on to its answer.
C10_ListStoreAbsorbsFailure ==
  (backend = "list" /\ sev.failed) => sev.status \in {0, 200}

\* the user messages of the turns the in-memory store holds for a session
MemoryTurns(s) == {memoryStorage[s][k].user : k \in 1..Len(memoryStorage[s])}

\* C11: when the durable backend fails during an append of a /agent request,
\* the turn is recorded in the in-memory store instead, so a later read of the
\* session served from memory contains it.
C11_FailedAppendKeptInMemory ==
  sev.op = "append.lost" => sev.result[1].user \in MemoryTurns(sev.session)

\* a read threw to its caller instead of returning
ReadThrew == sev.op = "read" /\ sev.fault = "storage"

\* C12: a read of a session that was never appended to returns the empty
\* sequence and raises no error, on every backend and whether or not the
\* durable backend answers.
C12_UnknownSessionReadsEmpty ==
  (sev.op = "read" /\ appended[sev.session] = <<>>) =>
     (sev.result = <<>> /\ ~ReadThrew)

\* C12 on the in-memory and the list-based store: such a read returns the
\* empty sequence, also when lRange fails.
C12_EmptyOnMemoryAndList ==
  (sev.op = "read" /\ appended[sev.session] = <<>> /\ backend \in {"memory", "list"}) =>
     (sev.result = <<>> /\ ~ReadThrew)

(***************************************************************************)
(* Claims about tool dispatch and the orchestration loop.                  *)
(***************************************************************************)
IsReturn == dev.op = "return"
IsDispatch == dev.op \in {"execute", "invalid"}

\* a request that toolExecutionNode answers: it resolves, or it carries an id
Answerable(toolCall) == Resolves(toolCall) \/ toolCall.id # NoId

\* C13 as stated: the messages a toolExecutionNode step returns are as many as
\* the Tool Call Requests of the model message and carry their call ids, one to
\* one, also for a request with an unregistered name or a missing id.
C13_OneResultPerRequest ==
  IsReturn =>
     /\ Len(returned) = Len(tool_calls)
     /\ \A k \in DOMAIN tool_calls : returned[k].tool_call_id = tool_calls[k].id

\* C13 as amended: every request that resolves or carries an id yields exactly
\* one result with its call id, in request order; a request that neither
\* resolves nor carries an id yields none; and when no request yields a result
\* the step returns the one synthetic result, whose id is "error".
C13_OneResultPerAnswerableRequest ==
  IsReturn =>
     LET answered == SelectSeq(tool_calls, Answerable)
     IN IF answered = <<>>
        THEN returned = <<SyntheticError>>
        ELSE /\ Len(returned) = Len(answered)
             /\ \A k \in DOMAIN answered : returned[k].tool_call_id = answered[k].id

C13_Witness ==
  /\ IsReturn
  /\ Len(tool_calls) = MaxToolCalls
  /\ Len(returned) = Len(tool_calls) - 1
  /\ returned[1].tool_call_id = tool_calls[Len(tool_calls)].id
  /\ tool_calls[Len(tool_calls)].name = "doesThingX"

\* the request the last dispatch step handled
Dispatched == tool_calls[dev.at]
CitedName(toolCall) == IF toolCall.name = NoName THEN "unknown tool" ELSE toolCall.name
IsErrorText(content) ==
  content[1] \in {"Error: Invalid tool request for", "Error executing tool"}
ListsCatalog(content) == \A name \in RegisteredNames : Includes(content, name)

\* C14 as stated: every request whose name is not in the registry gets an error
\* result that cites the name and lists every registered tool name.
C14_UnregisteredGetsCatalog ==
  (IsDispatch /\ Dispatched.name \notin RegisteredNames) =>
     /\ Len(dev.pushed) = 1
     /\ IsErrorText(dev.pushed[1].content)
     /\ Includes(dev.pushed[1].content, CitedName(Dispatched))
     /\ ListsCatalog(dev.pushed[1].content)

\* C14 as amended: a request whose name is not in the registry gets no result
\* when it carries no id (and its name is not found on toolsByName at all);
\* otherwise it gets one error result with its id that cites the name
\* ("unknown tool" for a missing name) and names no registered tool.
C14_UnregisteredCitesNameOnly ==
  (IsDispatch /\ Dispatched.name \notin RegisteredNames) =>
     IF ~Answerable(Dispatched)
     THEN dev.pushed = <<>>
     ELSE /\ Len(dev.pushed) = 1
          /\ dev.pushed[1].tool_call_id = Dispatched.id
          /\ IsErrorText(dev.pushed[1].content)
          /\ Includes(dev.pushed[1].content, CitedName(Dispatched))
          /\ \A name \in RegisteredNames : ~Includes(dev.pushed[1].content, name)

C14_Witness ==
  /\ dev.op = "invalid"
  /\ Dispatched.name = "doesThingX"
  /\ Dispatched.id # NoId
  /\ Len(dev.pushed) = 1
  /\ Includes(dev.pushed[1].content, "doesThingX")

\* C15: a tool call that throws gets one textual error result with its own
\* call id; every request of the turn that resolves is still executed and has
\* a result in the returned messages; and the step is followed by Reasoning.
C15_ThrowIsScopedToItsCall ==
  /\ (dev.op = "execute" /\ dev.thrown) =>
        /\ Len(dev.pushed) = 1
        /\ dev.pushed[1].tool_call_id = Dispatched.id
        /\ dev.pushed[1].content[1] = "Error executing tool"
        /\ Includes(dev.pushed[1].content, Dispatched.name)
  /\ IsReturn =>
        /\ node = "llmNode"
        /\ invoked = {k \in DOMAIN tool_calls : Resolves(tool_calls[k])}
        /\ Len(returned) >= Cardinality(invoked)
        /\ \A k \in invoked :
              \E j \in DOMAIN returned : returned[j].tool_call_id = tool_calls[k].id
        /\ Cardinality({j \in DOMAIN returned : returned[j].content[1] = "Error executing tool"})
              = Cardinality(threw)

C15_Witness ==
  /\ IsReturn
  /\ threw = {1}
  /\ invoked = 1..MaxToolCalls
  /\ Len(returned) = MaxToolCalls
  /\ returned[MaxToolCalls].content = Observation("sendEmail")

\* C16: every toolExecutionNode step returns at least one tool-result message,
\* and when no request produced a result it returns exactly the one synthetic
\* error result.
C16_AtLeastOneResult ==
  IsReturn =>
     /\ Len(returned) >= 1
     /\ Len(tool_calls) >= 1
     /\ results = <<>> => returned = <<SyntheticError>>
     /\ results # <<>> => returned = results

C16_Witness ==
  /\ IsReturn
  /\ results = <<>>
  /\ Len(tool_calls) = MaxToolCalls
  /\ returned = <<SyntheticError>>

\* C17: the graph is entered at llmNode; from llmNode the next node is __end__
\* exactly when the model message carries no Tool Call Request and
\* toolExecutionNode otherwise; toolExecutionNode is left only for llmNode; and
\* __end__ is left for nothing.
C17_LoopTransitions ==
  /\ node = "__start__"
  /\ [][/\ node = "__start__" => node' = "llmNode"
        /\ node = "llmNode" =>
              node' = IF Len(tool_calls') = 0 THEN "__end__" ELSE "toolExecutionNode"
        /\ node = "toolExecutionNode" => node' \in {"toolExecutionNode", "llmNode"}
        /\ node = "__end__" => node' = "__end__"]_vars

C17_Witness ==
  /\ IsReturn
  /\ node = "llmNode"
  /\ Len(tool_calls) = MaxToolCalls
  /\ \A k \in DOMAIN tool_calls : ~Resolves(tool_calls[k]) \/ k \in threw
  /\ threw # {}

\* C18: whatever the model answers, an invocation terminates: it reaches
\* __end__ after a bounded number of Reasoning/ExecutingTools iterations.
C18_InvocationTerminates == <>(node = "__end__")

(***************************************************************************)
(* Claims about the calendar tools.                                        *)
(***************************************************************************)
\* the minutes the meeting type alone gives, letter case aside
MinutesOfType(meetingType) ==
  LET type == ToLowerCase(meetingType)
  IN IF type \in {"initial consultation", "technical discussion"} THEN 60
     ELSE IF type = "proposal review" THEN 45
     ELSE 30

Scheduled == cev.op = "scheduleMeeting" /\ cev.success

\* C19: the event a scheduleMeeting call creates ends the meeting type's
\* duration after it starts: 60 minutes for initial consultation, 45 for
\* proposal review, 30 for status update, 60 for technical discussion, 30 for
\* any other type, whatever date, start time and time zone the caller gives.
C19_DurationByMeetingType ==
  Scheduled =>
     EventLength(events[cev.meetingId]) = MinutesOfType(cev.meetingType) * MsPerMinute

C19_Witness ==
  /\ Scheduled
  /\ cev.meetingType = "kickoff"
  /\ events[cev.meetingId].start.timeZone = "UTC"
  /\ EventLength(events[cev.meetingId]) = 30 * MsPerMinute

\* C20: after any sequence of successful rescheduleMeeting calls on a meeting,
\* its end minus its start equals what it was before the first of them.
C20_RescheduleKeepsLength ==
  \A id \in MeetingIds :
     (events[id] # NoMeeting /\ durationBefore[id] # NotRescheduled) =>
        EventLength(events[id]) = durationBefore[id]

\* C20 for events whose length is a whole number of minutes (every event
\* scheduleMeeting creates): their length is kept, whatever their type.
C20_WholeMinutesKept ==
  \A id \in MeetingIds :
     (/\ events[id] # NoMeeting
      /\ durationBefore[id] # NotRescheduled
      /\ durationBefore[id] % MsPerMinute = 0) =>
        EventLength(events[id]) = durationBefore[id]

\* C21: Canceled is terminal: once cancelMeeting has succeeded for a meeting id,
\* no later rescheduleMeeting or cancelMeeting on that id succeeds or changes
\* the calendar; each such call returns a failure result.
C21_CanceledIsTerminal ==
  [][\A id \in canceled :
       /\ events'[id] = events[id]
       /\ (cev'.meetingId = id /\ cev'.op \in {"rescheduleMeeting", "cancelMeeting"}) =>
             ~cev'.success]_vars

\* the candidate slots of the last scan: the business hours of the week days
\* the loop visited
Candidates ==
  {Slot(currentDate - localDateLag, hour) :
     currentDate \in {d \in query.startDate..query.endDate :
                        getDay(d - localDateLag) \notin {0, 6}},
     hour \in businessStartHour..(businessEndHour - 1)}
SlotStart(slot) == SlotInstant(slot.date, slot.startTime[1], query.timeZone)
SlotEnd(slot) == SlotInstant(slot.date, slot.endTime[1], query.timeZone)
Listed(slot) == \E k \in DOMAIN availableTimes : availableTimes[k] = slot
\* half-open interval overlap
Overlaps(slot, busy) == SlotStart(slot) < busy.end /\ busy.start < SlotEnd(slot)

\* C22: a candidate one-hour slot is left out as busy exactly when it overlaps
\* (half-open) one of the reported non-empty busy intervals.
C22_BusyIffOverlap ==
  response # NoResponse =>
    \A slot \in Candidates : ~Listed(slot) <=> \E busy \in busySlots : Overlaps(slot, busy)

\* [09:30,09:45) lies inside the 09:00 slot of day 1 and excludes it;
\* [17:00,18:00) touches the end of the 16:00 slot and does not
C22_Witness ==
  /\ response # NoResponse
  /\ query.timeZone = "UTC" /\ localDateLag = 0 /\ query.startDate = 1
  /\ busySlots = {[start |-> InstantUTC(1, 9, 30), end |-> InstantUTC(1, 9, 45)],
                  [start |-> InstantUTC(1, 17, 0), end |-> InstantUTC(1, 18, 0)]}
  /\ ~Listed(Slot(1, 9))
  /\ Listed(Slot(1, 16))

\* the candidate slots the busy test of the scan lets through
FreeSlots ==
  {slot \in Candidates : ~isSlotBusy(SlotStart(slot), SlotEnd(slot), busySlots)}

\* C23: the answer lists the first five free candidate slots in chronological
\* order (all of them when there are fewer), and `available` is true exactly
\* when there is a free candidate slot.
C23_FirstFiveChronological ==
  response # NoResponse =>
    LET slots == response.availableSlots
    IN  /\ Len(slots) = Min(SlotLimit, Cardinality(FreeSlots))
        /\ \A k \in DOMAIN slots : slots[k] \in FreeSlots
        /\ \A j, k \in DOMAIN slots : j < k => SlotStart(slots[j]) < SlotStart(slots[k])
        /\ \A slot \in FreeSlots :
             (\A k \in DOMAIN slots : slots[k] # slot) =>
               \A k \in DOMAIN slots : SlotStart(slots[k]) < SlotStart(slot)
        /\ response.available = (FreeSlots # {})

\* more than five free slots over two days, one of them left on the first day
C23_Witness ==
  /\ response # NoResponse
  /\ busySlots # {}
  /\ Cardinality(FreeSlots) > SlotLimit
  /\ Len(response.availableSlots) = SlotLimit
  /\ response.availableSlots[1].date # response.availableSlots[2].date

\* C26: with the same busy intervals, range and time zone, a second
\* checkAvailability call answers what the first did.
C26_SecondScanSameAnswer ==
  previous # NoResponse => response = previous

C26_Witness ==
  /\ scans = 2
  /\ previous # NoResponse
  /\ busySlots # {}
  /\ response.available
  /\ Len(response.availableSlots) < SlotLimit

\* C24: an informational tool (getProjectInfo, getTeamMemberInfo,
\* getTeamServices, introduceTeam, generateProjectProposal) invokes neither the
\* mail transport nor a calendar operation and leaves the guard flag as it was.
C24_InformationalToolsHaveNoEffect ==
  ev.op \in InformationalTools =>
    /\ ev.transport = "none"
    /\ ev.to = "none"
    /\ emailSentInCurrentSession = ev.flagBefore
    /\ ownSent[ev.inv] = ev.ownBefore
    /\ calendarVars = <<[id \in MeetingIds |-> NoMeeting],
                        [id \in MeetingIds |-> NotRescheduled], {}, NoCalendarEvent>>

\* an informational tool ran while the flag was set by a delivered e-mail
C24_Witness ==
  /\ ev.op \in InformationalTools \ {"getProjectInfo"}
  /\ ev.flagBefore
  /\ emailSentInCurrentSession

\* an informational tool ran in an invocation that sent nothing
C24_WitnessClear ==
  /\ ev.op = "getTeamMemberInfo"
  /\ ~ev.flagBefore
  /\ ~emailSentInCurrentSession

\* the conversation holds the user's project requirements
HoldsRequirements ==
  \E i \in DOMAIN conversation :
    conversation[i].from = "user" /\ conversation[i].content = RequirementsText
\* the positions of the tool results that hold a proposal
ProposalsAt ==
  {i \in DOMAIN conversation :
     conversation[i].from = "tool" /\ Includes(conversation[i].content, ProposalHeading)}

C28_SynthesizedOnlyWithoutProposal ==
  (eev.op = "sendEmail" /\ eev.entered) =>
    /\ eev.generated > 0 =>
         (handleClientRequirements(conversation).requirements # <<>> /\ ProposalsAt = {})
    /\ ProposalsAt # {} =>
         (eev.generated = 0 /\ eev.attached = conversation[LastOf(ProposalsAt)].content)

\* C27: the turn a completed /agent request stores pairs the user message
\* with the text of the final assistant message of the orchestration.
C27_StoredTextIsFinalAnswer ==
  bev.op = "request" => bev.ai = bev.final

\* C29: with both REST credentials present, the requests after startup are
\* served by the REST backend and not by memory.
C29_RestCredentialsServeRest ==
  (bev.op = "request" /\ env.upstash) => bev.backend = "rest"

\* C30: unavailability demotes to memory for the affected request only: once
\* the start has settled, a request made while the durable backend can be
\* reached is served by it, also after a failed connection at startup.
C30_DemotionEndsWithTheOutage ==
  (bev.op = "request" /\ ~env.upstash /\ bev.settled /\ bev.reachable) =>
    bev.backend = "direct"

\* the turns of a sequence, as a set
TurnsOf(list) == {list[k] : k \in DOMAIN list}
\* the user messages of the turns of a sequence
MessagesOf(list) == {list[k].user : k \in DOMAIN list}

\* C31: a turn whose append completed is in every later read of its session
\* whose limit is large enough, whatever changes of client.isReady lie between.
C31_ReadYourWrites ==
  (sev.op = "read" /\ sev.limit >= Len(appended[sev.session])) =>
    MessagesOf(appended[sev.session]) \subseteq MessagesOf(sev.result)

\* C32: two appends to one session that interleave at their awaits lose no
\* turn: once no append is in flight, every turn whose append completed is
\* held by the store it was written to.
C32_ConcurrentAppendsKeepBoth ==
  (\A h \in Handlers : hpc[h] = "idle") =>
    \A s \in Sessions :
      MessagesOf(appended[s]) \subseteq
        MessagesOf(memoryStorage[s]) \cup MessagesOf(DurableTurns(s))

\* C33: a step changes the stored history of the session it names and of no
\* other, and a read of a session returns turns appended to that session only.
C33_SessionsArePartitioned ==
  [][/\ \A s \in Sessions :
          s # sev'.session =>
            /\ memoryStorage'[s] = memoryStorage[s]
            /\ redisList'[ChatKey(s)] = redisList[ChatKey(s)]
            /\ redisString'[s] = redisString[s]
            /\ \A w \in Limits :
                 isReady' = isReady =>
                   (IF isReady THEN IF backend = "list" THEN ListRead(redisList'[ChatKey(s)], w)
                                    ELSE GetSetRead(redisString'[s], w)
                    ELSE MemoryRead(memoryStorage'[s], w))
                   = (IF isReady THEN IF backend = "list" THEN ListRead(redisList[ChatKey(s)], w)
                                      ELSE GetSetRead(redisString[s], w)
                      ELSE MemoryRead(memoryStorage[s], w))
     /\ sev'.op = "read" =>
          MessagesOf(sev'.result) \subseteq MessagesOf(appended'[sev'.session])]_vars

\* an append to s1 while s2 holds turns in memory and in the durable store
C33_Witness ==
  /\ sev.op = "append" /\ sev.session = "s1"
  /\ memoryStorage["s2"] # <<>>
  /\ DurableTurns("s2") # <<>>

\* a step of the route that changes a stored history
StoresChange ==
  memoryStorage' # memoryStorage \/ redisList' # redisList \/ redisString' # redisString
\* the handler ends the storing of the turn of its completed cycle
EndsCycle(r) == hpc[r] \in {"store", "store.set"} /\ hpc'[r] = "idle"

\* the parts of C34 about order and rejected requests: a 400 for a missing
\* sessionId starts no handler and touches neither store nor guard flag, a 500
\* of the orchestration leaves the stores as they are, and a store changes only
\* in the storing step that follows a completed orchestration.
C34_StoredOnlyAfterTheCycle ==
  [][/\ (sev'.op = "receive" /\ sev'.status = 400) =>
          (~StoresChange /\ hpc' = hpc /\ UNCHANGED agentVars)
     /\ (sev'.op = "assistant" /\ sev'.status = 500) => ~StoresChange
     /\ StoresChange =>
          \E r \in Requests :
            /\ hpc[r] \in {"store", "store.set"}
            /\ hreq[r].responseText = "reply"]_vars

\* C34: a turn is appended only after the orchestration of its request has
\* completed, exactly one turn per completed cycle; a 400 invokes neither the
\* model nor the store nor the guard reset, and a 500 of the orchestration
\* leaves the history unchanged.
C34_OneTurnPerCompletedCycle ==
  [][/\ (sev'.op = "receive" /\ sev'.status = 400) =>
          (~StoresChange /\ hpc' = hpc /\ UNCHANGED agentVars)
     /\ (sev'.op = "assistant" /\ sev'.status = 500) => ~StoresChange
     /\ StoresChange =>
          \E r \in Requests :
            /\ hpc[r] \in {"store", "store.set"}
            /\ hreq[r].responseText = "reply"
     /\ \A r \in Requests :
          \A s \in Sessions :
            (EndsCycle(r) /\ hreq[r].session = s) =>
              StoredCount(s)' = StoredCount(s) + 1]_vars

\* C36: in scheduleMeeting the client notification is attempted only after the
\* event was created: a failed creation answers success false with no
\* notification, and a failed notification after a successful creation keeps
\* the created event and the success result.
C36_NotifiedOnlyAfterCreation ==
  cev.op = "scheduleMeeting" =>
    /\ (\E k \in DOMAIN cev.api : cev.api[k] = "sendMail") =
         (cev.api # <<>> /\ cev.api[1] = "insert" /\ Len(cev.api) = 2 /\ cev.api[2] = "sendMail")
    /\ cev.api[1] = "insert.failed" =>
         (~cev.success /\ cev.notice = "none" /\ events[cev.meetingId] = NoMeeting)
    /\ cev.notice = "failed" =>
         (cev.success /\ events[cev.meetingId] # NoMeeting /\ cev.meetingId \notin canceled)
    /\ cev.api[1] = "insert" => cev.success

C36_Witness ==
  /\ cev.op = "scheduleMeeting"
  /\ cev.notice = "failed"
  /\ cev.success
  /\ events[cev.meetingId] # NoMeeting

\* C37: cancelMeeting reads the event before deleting it and deletes only when
\* the read succeeded (a failed read answers a failure and issues no delete);
\* the delete notifies the attendees exactly when sendNotification is true,
\* which it is when the flag is left out.
C37_ReadThenDeleteAndNotify ==
  cev.op = "cancelMeeting" =>
    /\ cev.api # <<>>
    /\ cev.api[1] \in {"get", "get.failed"}
    /\ cev.api[1] = "get.failed" => (Len(cev.api) = 1 /\ ~cev.success)
    /\ cev.api[1] = "get" => (Len(cev.api) = 2 /\ cev.api[2] \in {"delete", "delete.failed"})
    /\ Len(cev.api) = 2 =>
         ((cev.notice = "all") = (cev.flag \in {"true", "omitted"}))
    /\ Len(cev.api) = 1 => cev.notice = "none"
    /\ cev.success = (\E k \in DOMAIN cev.api : cev.api[k] = "delete")

C37_Witness ==
  /\ cev.op = "cancelMeeting"
  /\ cev.flag = "omitted"
  /\ cev.api = <<"get", "delete">>
  /\ cev.notice = "all"

\* the feedbacks that contain "revise" or "improve" in any letter case
RevisingFeedbacks ==
  { <<"Please", "REVISE", "the", "budget">>,
    <<"Could", "Improve", "the", "timeline">>,
    <<"No", "improvements", "needed">>,
    <<"Revised", "scope", "reads", "well">> }

\* C38: the proposal workflow alternates generateProposal and reviewProposal;
\* after a review it returns to generateProposal exactly when the feedback
\* contains "revise" or "improve" in any letter case and ends otherwise; no
\* count of rounds stops it: while every review asks for a revision the
\* workflow never ends and generates again and again.
C38_ReviewLoopHasNoCap ==
  /\ [][/\ wprev' = "generateProposal" =>
            (wprev \in {"none", "reviewProposal"} /\ wnode' = "reviewProposal")
        /\ wprev' = "reviewProposal" =>
            /\ wprev = "generateProposal"
            /\ wnode' = IF wstate'.feedback \in RevisingFeedbacks
                           THEN "generateProposal"
                           ELSE "__end__"]_workflowVars
  /\ [](wstate.feedback = <<>> \/ wstate.feedback \in RevisingFeedbacks) =>
       ([](wnode # "__end__") /\ []<>(wnode = "generateProposal"))

C38_Witness ==
  /\ wprev = "reviewProposal"
  /\ wnode = "generateProposal"
  /\ wstate.feedback = <<"No", "improvements", "needed">>
  /\ wstate.response # "none"

\* the week days of the inclusive requested range
RequestedWeekDays ==
  {d \in query.startDate..query.endDate : getDay(d) \notin {0, 6}}

\* every listed slot is one hour long, starts on the hour from 09:00 to 16:00
\* and lies on a week day of the requested range; every week day of the range,
\* the last one too, was scanned: each of its business hours is listed unless a
\* reported busy interval excludes it
SlotsWithinRequest ==
  response # NoResponse =>
    /\ \A k \in DOMAIN availableTimes :
         LET slot == availableTimes[k]
         IN /\ slot.startTime[2] = 0 /\ slot.endTime[2] = 0
            /\ slot.endTime[1] = slot.startTime[1] + 1
            /\ slot.startTime[1] \in 9..16
            /\ slot.date \in RequestedWeekDays
    /\ \A k \in DOMAIN response.availableSlots :
         Listed(response.availableSlots[k])
    /\ \A d \in RequestedWeekDays : \A hour \in 9..16 :
         \/ Listed(Slot(d, hour))
         \/ isSlotBusy(SlotInstant(d, hour, query.timeZone),
                       SlotInstant(d, hour + 1, query.timeZone), busySlots)

\* C39: every slot checkAvailability returns is a one-hour slot starting on the
\* hour between 09:00 and 16:00 inclusive, on a day of the inclusive requested
\* range that is not a Saturday or Sunday; every week day of the range,
\* including its last day, is scanned.
C39_SlotsOnRequestedWeekDays == SlotsWithinRequest

\* the same where the local date of the server at 00:00Z is the UTC date
C39_WhereLocalDateIsUTC == localDateLag = 0 => SlotsWithinRequest

\* C40: in the dispatch of scheduleMeeting the project name is taken from the
\* backward scan of the conversation only when the request has none and the
\* scan found context; a project name the request supplies reaches the tool
\* unchanged, and every scheduleMeeting request invokes the tool exactly once.
C40_ProjectNameBackfilledOnlyWhenMissing ==
  (eev.op = "scheduleMeeting" /\ eev.args # NoArgs) =>
    /\ Len(eev.invoked) = 1
    /\ eev.invoked[1].clientName = eev.args.clientName
    /\ eev.invoked[1].projectName # eev.args.projectName =>
         /\ eev.args.projectName \in {"undefined", ""}
         /\ \E k \in DOMAIN conversation :
              \/ conversation[k].role = "user" /\ conversation[k].content = RequirementsText
              \/ conversation[k].from = "tool" /\ conversation[k].content[1] = ProposalHeading
         /\ eev.invoked[1].projectName \in {"website", "Project"}
    /\ eev.args.projectName = "Storefront" => eev.invoked[1] = eev.args

\* a request without arguments at all is invoked once as well, with {}
C40_InvokedOnceWithoutArgs ==
  (eev.op = "scheduleMeeting" /\ eev.args = NoArgs) => eev.invoked = <<[none |-> FALSE]>>

C40_Witness ==
  /\ eev.op = "scheduleMeeting"
  /\ eev.args # NoArgs
  /\ eev.args.projectName = "Storefront"
  /\ eev.found
  /\ eev.invoked = <<eev.args>>

C40_BackfillWitness ==
  /\ eev.op = "scheduleMeeting"
  /\ eev.args # NoArgs
  /\ eev.args.projectName = "undefined"
  /\ eev.invoked[1].projectName = "website"

\* the position of the request a result answers
RequestOf(message) ==
  CHOOSE k \in DOMAIN tool_calls : tool_calls[k].id = message.tool_call_id

\* C35: the tool calls of a turn run one at a time in request order, each
\* awaited to completion (the nested proposal generation of a sendEmail
\* dispatch included) before the next begins, and the results are appended in
\* the order of the requests.
C35_OneAtATimeInRequestOrder ==
  node = "toolExecutionNode" =>
    /\ Cardinality(running) <= 1
    /\ \A r \in running : r.at = cursor - 1
    /\ \A i, j \in DOMAIN results :
         i < j => RequestOf(results[i]) < RequestOf(results[j])
    /\ \A k \in invoked :
         \/ \E r \in running : r.at = k
         \/ \E i \in DOMAIN results : results[i].tool_call_id = tool_calls[k].id
    /\ \A k \in 1..(cursor - 1) :
         (~Resolves(tool_calls[k])) =>
           \E i \in DOMAIN results : results[i].tool_call_id = tool_calls[k].id

\* the second request's proposal was generated and its sendEmail is awaited,
\* after the first request was answered
C35_Witness ==
  /\ node = "toolExecutionNode"
  /\ Len(tool_calls) = 2
  /\ tool_calls[2].generates
  /\ running = {[at |-> 2, tool |-> "sendEmail"]}
  /\ Len(results) = 1
  /\ results[1].tool_call_id = tool_calls[1].id

====
